---- MODULE Spec2Model ----
(***************************************************************************)
(* The connection manager of modules/websocket_client_real_time.py:        *)
(* WebSocketClient.run / connect / graceful_shutdown and the three         *)
(* per-session tasks (_heartbeat, listen_messages, process_message_queue)  *)
(* under asyncio's cooperative scheduling.  One action is what one task    *)
(* does between two suspension points (an await that really suspends).     *)
(***************************************************************************)
EXTENDS Integers, Sequences, FiniteSets, TLC

\* ------------------------------------------------------------------ bounds
\* largest WS_MAX_RETRIES the configuration is drawn from
MaxBudget == 2
\* transports the network lets websockets.connect() open
MaxOpens == 2
\* frames the server sends over the whole run
MaxFrames == 2
\* calls of graceful_shutdown() the orchestrator makes
MaxShutdowns == 2
\* largest WS_MAX_RETRIES of the runs in which every connect() fails
MaxAttempts == 9
\* kbar frames of one series the server streams in a session
MaxStream == 202
MaxTfLen == 2
MaxPlan == 3
MaxCandles == 2
MaxSwings == 2
MaxRows == 27
MaxPasses == 2

\* ------------------------------------------------ program constants
\* the sentinel graceful_shutdown and listen_messages put on the queue
None == 0
\* min(5 * self._retries, 30)
BackoffBase == 5
BackoffCap == 30

VARIABLES
    max_retries,   \* self._max_retries
    retries,       \* self._retries
    is_running,    \* self.is_running
    pc,            \* where the task running run() is suspended
    ws,            \* self.ws: 0 is None, k the k-th transport opened
    wsOpen,        \* whether transport ws is still open
    hbs,           \* every _heartbeat task ever created, in creation order
    hb_task,       \* self._hb_task: 0 is None, else an index into hbs
    listener,      \* self._listener_task and the state of that task
    consumer,      \* self._consumer_task and the state of that task
    queue,         \* self.queue
    nframes,       \* frames the listener has put on the queue: 1..nframes
    handled,       \* frames passed to _handle_ws_message, in order
    stale,         \* history: the queue items older than the tasks of the
                   \* session (how many are queued, which were taken)
    sd,            \* where graceful_shutdown() is suspended
    sdTargets,     \* the tuple of task handles its for-loop iterates over
    sdCalls,       \* calls of graceful_shutdown() so far
    attempts,      \* history: calls of connect() made by run()
    waits,         \* history: the backoff sleeps of run(), in order
    parkedAt,      \* history: retries when shutdown hit a parked consumer
    frames,        \* the raw text of frame n, for n in 1..nframes
    df_store,      \* self.df_store: (symbol, timeframe) -> bar window
    order_books,   \* self.order_books: symbol -> depth snapshot
    sent,          \* history: what was sent on the transport, in order
    forwarded,     \* history: the calls of self._message_callback
    absorbed,      \* history: the exceptions logged and swallowed
    symbols,       \* self.symbols
    timeframes,    \* self.timeframes
    timeframe_mapping, \* self.timeframe_mapping
    rest_code_map, \* self.rest_code_map
    series,        \* (symbol, timeframe) pairs subscribe_to_channels is past
    prefills,      \* history: the calls of prefill_data and how they ended
    tf,            \* the argument of a call of normalize_tf
    canonical_tf,  \* what normalize_tf returned, applied once and again
    plan,          \* the argument of a call of select_best_sl_tp
    selected,      \* what select_best_sl_tp returned
    ind_df,        \* the frame an IndicatorCalculator is made with
    ind_out,       \* history: the method called on it and what it gave
    config,        \* the configuration dict
    boot,          \* history: what was done with config, in order
    passes         \* history: the calls of process_tick_data

dispatchVars == <<frames, df_store, order_books, sent, forwarded, absorbed>>
configVars == <<symbols, timeframes, timeframe_mapping, rest_code_map>>
subscribeVars == <<series, prefills>>
callVars == <<tf, canonical_tf, plan, selected, ind_df, ind_out, config,
              boot, passes>>
dataVars == <<dispatchVars, configVars, subscribeVars, callVars>>

vars == <<max_retries, retries, is_running, pc, ws, wsOpen, hbs, hb_task,
          listener, consumer, queue, nframes, handled, stale, sd, sdTargets,
          sdCalls, attempts, waits, parkedAt, dataVars>>

runVars == <<retries, is_running, pc, attempts, waits>>
taskVars == <<hbs, hb_task, listener, consumer>>
queueVars == <<queue, nframes, handled, stale>>
sdVars == <<sd, sdTargets, sdCalls, parkedAt>>

Min(a, b) == IF a <= b THEN a ELSE b

\* ---------------------------------------------------------- Python values
\* A str is a sequence of one-character strings.  A value a frame or a plan
\* can carry is one of the records below; a dict is a function from its
\* keys.
PyNone == [none |-> TRUE]
Str(s) == [str |-> s]
Num(n) == [num |-> n]
Bool(b) == [bool |-> b]
List(l) == [list |-> l]
Dict(d) == [dict |-> d]

IsNone(v) == "none" \in DOMAIN v
IsStr(v) == "str" \in DOMAIN v
IsNum(v) == "num" \in DOMAIN v
IsBool(v) == "bool" \in DOMAIN v
IsList(v) == "list" \in DOMAIN v
IsDict(v) == "dict" \in DOMAIN v

\* bool(v): what `if v:`, `v or w` and `not v` test
Truthy(v) ==
    IF IsNone(v) THEN FALSE
    ELSE IF IsStr(v) THEN v.str # <<>>
    ELSE IF IsNum(v) THEN v.num # 0
    ELSE IF IsBool(v) THEN v.bool
    ELSE IF IsList(v) THEN v.list # <<>>
    ELSE DOMAIN v.dict # {}

\* d.get(k, default) of a dict d
get(d, k, default) == IF k \in DOMAIN d.dict THEN d.dict[k] ELSE default

\* s.startswith(prefix) of two str
startswith(s, prefix) ==
    /\ Len(s) >= Len(prefix)
    /\ SubSeq(s, 1, Len(prefix)) = prefix

UpperLetters ==
    <<"A", "B", "C", "D", "E", "F", "G", "H", "I", "J", "K", "L", "M", "N",
      "O", "P", "Q", "R", "S", "T", "U", "V", "W", "X", "Y", "Z">>
LowerLetters ==
    <<"a", "b", "c", "d", "e", "f", "g", "h", "i", "j", "k", "l", "m", "n",
      "o", "p", "q", "r", "s", "t", "u", "v", "w", "x", "y", "z">>

\* s.lower() and s.upper() of a str of ASCII characters
lower(s) ==
    [i \in 1..Len(s) |->
        IF \E k \in 1..26 : UpperLetters[k] = s[i]
        THEN LowerLetters[CHOOSE k \in 1..26 : UpperLetters[k] = s[i]]
        ELSE s[i]]
upper(s) ==
    [i \in 1..Len(s) |->
        IF \E k \in 1..26 : LowerLetters[k] = s[i]
        THEN UpperLetters[CHOOSE k \in 1..26 : LowerLetters[k] = s[i]]
        ELSE s[i]]

\* ----------------------------------------------------------- normalize_tf
s_min == <<"m", "i", "n">>
s_minute == <<"m", "i", "n", "u", "t", "e">>
s_hour == <<"h", "o", "u", "r">>
s_day == <<"d", "a", "y">>
s_week == <<"w", "e", "e", "k">>
s_month == <<"m", "o", "n", "t", "h">>

\* the dict `aliases` of normalize_tf, in the order of its items()
aliases ==
    << [canon |-> <<"1", "m">>,
        alts |-> << <<"1", "m">>, <<"1">> \o s_min, s_minute \o <<"1">> >>],
       [canon |-> <<"5", "m">>,
        alts |-> << <<"5", "m">>, <<"5">> \o s_min, s_minute \o <<"5">> >>],
       [canon |-> <<"1", "5", "m">>,
        alts |-> << <<"1", "5", "m">>, <<"1", "5">> \o s_min,
                    s_minute \o <<"1", "5">> >>],
       [canon |-> <<"3", "0", "m">>,
        alts |-> << <<"3", "0", "m">>, <<"3", "0">> \o s_min,
                    s_minute \o <<"3", "0">> >>],
       [canon |-> <<"1", "h">>,
        alts |-> << <<"1", "h">>, <<"h", "1">>, s_hour \o <<"1">> >>],
       [canon |-> <<"4", "h">>,
        alts |-> << <<"4", "h">>, <<"h", "4">>, s_hour \o <<"4">> >>],
       [canon |-> <<"8", "h">>,
        alts |-> << <<"8", "h">>, s_hour \o <<"8">> >>],
       [canon |-> <<"1", "2", "h">>,
        alts |-> << <<"1", "2", "h">>, s_hour \o <<"1", "2">> >>],
       [canon |-> <<"1", "d">>,
        alts |-> << <<"1", "d">>, s_day \o <<"1">> >>],
       [canon |-> <<"1", "w">>,
        alts |-> << <<"1", "w">>, s_week \o <<"1">> >>],
       [canon |-> <<"1", "m", "t", "h">>,
        alts |-> << <<"1", "m", "t", "h">>, s_month \o <<"1">> >>] >>

\* `t in alts`
InAlts(t, alts) == \E i \in 1..Len(alts) : alts[i] = t

\* A faulty normalize_tf (the alias table is never consulted).
normalize_tf_lower_only(x) == lower(x)

\* normalize_tf(tf): the canon of the first item of `aliases` whose list
\* holds tf.lower(), else tf.lower()
normalize_tf(x) ==
    LET t == lower(x)
        hits == {g \in 1..Len(aliases) : InAlts(t, aliases[g].alts)}
    IN  IF hits # {}
        THEN aliases[CHOOSE g \in hits : \A h \in hits : g <= h].canon
        ELSE t

\* ------------------------------------------------------------ predicates
\* A faulty max_retries_reached (the budget test is off by one); C6 must
\* not survive it.
max_retries_reached_gt == retries > max_retries

max_retries_reached == retries >= max_retries

\* A faulty backoff_wait (the cap is forgotten); C2 must not survive it.
backoff_wait_uncapped(n) == BackoffBase * n

backoff_wait(n) == Min(BackoffBase * n, BackoffCap)

HbAlive(h) == h.st \in {"pending", "pinging"}
ListenerAlive == listener \in {"new", "reading", "cancelling"}
ConsumerAlive == consumer \in {"ready", "parked"}

\* the three task handles, all None
NoTargets == [hb |-> 0, l |-> FALSE, c |-> FALSE]

\* The stores after __init__ and nothing sent, forwarded or logged yet.
InitStores ==
    /\ frames = <<>>
    /\ df_store = <<>>
    /\ order_books = <<>>
    /\ sent = <<>>
    /\ forwarded = <<>>
    /\ absorbed = <<>>
    /\ series = 0
    /\ prefills = <<>>

\* A configuration that names no series.
InitNoSeries ==
    /\ symbols = <<>>
    /\ timeframes = <<>>
    /\ timeframe_mapping = <<>>
    /\ rest_code_map = <<>>

\* No indicator, configuration or signal call is under way.
InitNoEval ==
    /\ ind_df = <<>>
    /\ ind_out = <<>>
    /\ config = <<>>
    /\ boot = <<>>
    /\ passes = <<>>

\* No call of normalize_tf or select_best_sl_tp is under way either.
InitNoCall ==
    /\ tf = <<>>
    /\ canonical_tf = <<>>
    /\ plan = <<>>
    /\ selected = <<>>
    /\ InitNoEval

\* The connection manager after __init__, with WS_MAX_RETRIES drawn from
\* 0..budget.
InitManager(budget) ==
    /\ max_retries \in 0..budget
    /\ retries = 0
    /\ is_running = FALSE
    /\ pc = "idle"
    /\ ws = 0
    /\ wsOpen = FALSE
    /\ hbs = <<>>
    /\ hb_task = 0
    /\ listener = "none"
    /\ consumer = "none"
    /\ queue = <<>>
    /\ nframes = 0
    /\ handled = <<>>
    /\ stale = [queued |-> 0, taken |-> <<>>]
    /\ sd = "idle"
    /\ sdTargets = NoTargets
    /\ sdCalls = 0
    /\ attempts = 0
    /\ waits = <<>>
    /\ parkedAt = -1

\* The client after __init__, with WS_MAX_RETRIES drawn from 0..budget.
InitBudget(budget) ==
    /\ InitManager(budget)
    /\ InitStores
    /\ InitNoSeries
    /\ InitNoCall

Init == InitBudget(MaxBudget)

\* ------------------------------------------------------------------ run()
\* The head of run()'s while loop, up to the next suspension: either the
\* loop ends and run() returns, or connect() is entered and suspends in
\* websockets.connect().
run_loop_head ==
    IF max_retries_reached
    THEN /\ is_running' = FALSE
         /\ pc' = "exhausted"
         /\ attempts' = attempts
    ELSE /\ is_running' = TRUE
         /\ pc' = "connecting"
         /\ attempts' = attempts + 1

\* A faulty run_except (the failure is logged and slept on, but not
\* counted); C1 must not survive it.
run_except_uncounted ==
    /\ retries' = retries
    /\ waits' = Append(waits, backoff_wait(retries + 1))
    /\ pc' = "backoff"
    /\ UNCHANGED <<is_running, attempts>>

\* run()'s `except Exception`: count the failure and sleep the backoff.
run_except ==
    /\ retries' = retries + 1
    /\ waits' = Append(waits, backoff_wait(retries + 1))
    /\ pc' = "backoff"
    /\ UNCHANGED <<is_running, attempts>>

\* run() is called (once) by the orchestrator.
run_call ==
    /\ pc = "idle"
    /\ run_loop_head
    /\ UNCHANGED <<dataVars, max_retries, retries, waits, ws, wsOpen, taskVars,
                   queueVars, sdVars>>

\* asyncio.sleep(backoff) is over: back to the loop head.
run_backoff_over ==
    /\ pc = "backoff"
    /\ run_loop_head
    /\ UNCHANGED <<dataVars, max_retries, retries, waits, ws, wsOpen, taskVars,
                   queueVars, sdVars>>

\* -------------------------------------------------------------- connect()
\* websockets.connect() raises: the exception reaches run()'s handler.
connect_raised ==
    /\ pc = "connecting"
    /\ run_except
    /\ UNCHANGED <<dataVars, max_retries, ws, wsOpen, taskVars, queueVars, sdVars>>

\* websockets.connect() opens a transport: self.ws is set, the heartbeat
\* task is created (the previous handle is overwritten, not cancelled) and
\* connect() suspends inside subscribe_to_channels().
connect_opened ==
    /\ pc = "connecting"
    /\ Len(hbs) < MaxOpens
    /\ ws' = Len(hbs) + 1
    /\ wsOpen' = TRUE
    /\ hbs' = Append(hbs, [st |-> "pending", on |-> 0])
    /\ hb_task' = Len(hbs) + 1
    /\ pc' = "subscribing"
    /\ UNCHANGED <<dataVars, max_retries, retries, is_running, attempts, waits,
                   listener, consumer, queueVars, sdVars>>

\* subscribe_to_channels() raises (prefill_data raises, or ws.send on a
\* closed transport): `async with` closes the transport, the heartbeat
\* task is left running, the exception reaches run()'s handler.
subscribe_raised ==
    /\ pc = "subscribing"
    /\ wsOpen' = FALSE
    /\ run_except
    /\ UNCHANGED <<dataVars, max_retries, ws, taskVars, queueVars, sdVars>>

\* subscribe_to_channels() returns: listener and consumer are created and
\* connect() enters `while self.is_running: await asyncio.sleep(1)`.
subscribe_done ==
    /\ pc = "subscribing"
    /\ listener' = "new"
    /\ consumer' = "ready"
    /\ stale' = [stale EXCEPT !.queued = Len(queue)]
    /\ pc' = "live"
    /\ UNCHANGED <<dataVars, max_retries, retries, is_running, attempts, waits, ws,
                   wsOpen, hbs, hb_task, queue, nframes, handled, sdVars>>

\* connect()'s keep-alive loop sees is_running false: `async with` closes
\* the transport, connect() returns, run() breaks and returns.
connect_returned ==
    /\ pc = "live"
    /\ ~is_running
    /\ wsOpen' = FALSE
    /\ is_running' = FALSE
    /\ pc' = "closed"
    /\ UNCHANGED <<dataVars, max_retries, retries, attempts, waits, ws, taskVars,
                   queueVars, sdVars>>

\* ----------------------------------------------------------- _heartbeat()
\* The task runs from the loop head (its first scheduling, or the interval
\* sleep is over) to the next suspension: the loop ends, or ws.ping()
\* raises on a closed transport, or the ping is sent and the pong awaited.
heartbeat_loop(i) ==
    /\ hbs[i].st = "pending"
    /\ hbs' = [hbs EXCEPT ![i] =
                  IF is_running /\ ws # 0
                  THEN IF wsOpen
                       THEN [st |-> "pinging", on |-> ws]
                       ELSE [st |-> "failed", on |-> 0]
                  ELSE [st |-> "exited", on |-> 0]]
    /\ UNCHANGED <<dataVars, max_retries, runVars, ws, wsOpen, hb_task, listener,
                   consumer, queueVars, sdVars>>

\* The pong arrives in time: the task sleeps the interval.
heartbeat_pong(i) ==
    /\ hbs[i].st = "pinging"
    /\ hbs[i].on = ws
    /\ wsOpen
    /\ hbs' = [hbs EXCEPT ![i] = [st |-> "pending", on |-> 0]]
    /\ UNCHANGED <<dataVars, max_retries, runVars, ws, wsOpen, hb_task, listener,
                   consumer, queueVars, sdVars>>

\* No pong within the timeout (or the pinged transport closed): the
\* `except Exception` logs and breaks, and the task ends.
heartbeat_ping_failed(i) ==
    /\ hbs[i].st = "pinging"
    /\ hbs' = [hbs EXCEPT ![i] = [st |-> "failed", on |-> 0]]
    /\ UNCHANGED <<dataVars, max_retries, runVars, ws, wsOpen, hb_task, listener,
                   consumer, queueVars, sdVars>>

\* ------------------------------------------------------ listen_messages()
\* `async for raw in self.ws: await self.queue.put(raw)`
listen_frame ==
    /\ listener \in {"new", "reading"}
    /\ wsOpen
    /\ nframes < MaxFrames
    /\ nframes' = nframes + 1
    /\ queue' = Append(queue, nframes + 1)
    /\ listener' = "reading"
    /\ UNCHANGED <<dataVars, max_retries, runVars, ws, wsOpen, hbs, hb_task,
                   consumer, handled, stale, sdVars>>

\* The `finally` of listen_messages().
listen_finally ==
    /\ is_running' = FALSE
    /\ queue' = Append(queue, None)

\* The read loop ends on a closed transport.
listen_closed ==
    /\ listener \in {"new", "reading"}
    /\ ~wsOpen
    /\ listen_finally
    /\ listener' = "done"
    /\ UNCHANGED <<dataVars, max_retries, retries, pc, attempts, waits, ws, wsOpen,
                   hbs, hb_task, consumer, nframes, handled, stale, sdVars>>

\* CancelledError is thrown into the read loop.
listen_cancelled ==
    /\ listener = "cancelling"
    /\ listen_finally
    /\ listener' = "cancelled"
    /\ UNCHANGED <<dataVars, max_retries, retries, pc, attempts, waits, ws, wsOpen,
                   hbs, hb_task, consumer, nframes, handled, stale, sdVars>>

\* ------------------------------------------------ process_message_queue()
\* `raw = await self.queue.get()` returns the head of the queue: the
\* sentinel ends the loop, a frame is passed to _handle_ws_message.
consumer_take ==
    /\ queue' = Tail(queue)
    /\ stale' = IF stale.queued > 0
                THEN [queued |-> stale.queued - 1,
                      taken |-> Append(stale.taken, Head(queue))]
                ELSE stale
    /\ IF Head(queue) = None
       THEN /\ consumer' = "done"
            /\ handled' = handled
       ELSE /\ consumer' = "ready"
            /\ handled' = Append(handled, Head(queue))

\* The task runs from the loop head (`while self.is_running`).
consumer_loop ==
    /\ consumer = "ready"
    /\ IF ~is_running
       THEN consumer' = "done" /\ UNCHANGED <<queue, handled, stale>>
       ELSE IF queue = <<>>
            THEN consumer' = "parked" /\ UNCHANGED <<queue, handled, stale>>
            ELSE consumer_take
    /\ UNCHANGED <<dataVars, max_retries, runVars, ws, wsOpen, hbs, hb_task,
                   listener, nframes, sdVars>>

\* The task was parked in queue.get() and an item has been put.
consumer_wake ==
    /\ consumer = "parked"
    /\ queue # <<>>
    /\ consumer_take
    /\ UNCHANGED <<dataVars, max_retries, runVars, ws, wsOpen, hbs, hb_task,
                   listener, nframes, sdVars>>

\* ---------------------------------------------------- graceful_shutdown()
\* The for-loop over (hb, listener, consumer) from its k-th task on, then
\* `if self.ws: await self.ws.close()` and `return True`.  A task that is
\* none or finished is passed without suspending; a live one is cancelled
\* and awaited.
shutdown_from(k, tg) ==
    IF k <= 1 /\ tg.hb # 0 /\ HbAlive(hbs[tg.hb])
    THEN /\ hbs' = [hbs EXCEPT ![tg.hb] = [st |-> "cancelled", on |-> 0]]
         /\ sd' = "hb"
         /\ UNCHANGED <<listener, consumer, wsOpen>>
    ELSE IF k <= 2 /\ tg.l /\ ListenerAlive
    THEN /\ listener' = IF listener = "new" THEN "cancelled" ELSE "cancelling"
         /\ sd' = "listener"
         /\ UNCHANGED <<hbs, consumer, wsOpen>>
    ELSE IF k <= 3 /\ tg.c /\ ConsumerAlive
    THEN /\ consumer' = "cancelled"
         /\ sd' = "consumer"
         /\ UNCHANGED <<hbs, listener, wsOpen>>
    ELSE /\ wsOpen' = FALSE
         /\ sd' = "idle"
         /\ UNCHANGED <<hbs, listener, consumer>>

\* A faulty shutdown_unblock (no sentinel is put); C9 must not survive it.
shutdown_unblock_missing == queue' = queue

\* `await self.queue.put(None)`: the queue is unbounded, the put does not
\* suspend.
shutdown_unblock == queue' = Append(queue, None)

\* graceful_shutdown() is called: is_running is cleared, the sentinel is
\* put, the handles are read and the loop starts.
shutdown_call ==
    /\ sd = "idle"
    /\ sdCalls < MaxShutdowns
    /\ sdCalls' = sdCalls + 1
    /\ is_running' = FALSE
    /\ shutdown_unblock
    /\ sdTargets' = [hb |-> hb_task, l |-> listener # "none",
                     c |-> consumer # "none"]
    /\ shutdown_from(1, [hb |-> hb_task, l |-> listener # "none",
                         c |-> consumer # "none"])
    /\ parkedAt' = IF /\ parkedAt = -1
                      /\ pc = "live"
                      /\ is_running
                      /\ consumer = "parked"
                      /\ queue = <<>>
                   THEN retries
                   ELSE parkedAt
    /\ UNCHANGED <<dataVars, max_retries, retries, pc, attempts, waits, ws, hb_task,
                   nframes, handled, stale>>

\* `await task` returns: the awaited task has ended.
shutdown_resume ==
    /\ \/ sd = "hb" /\ ~HbAlive(hbs[sdTargets.hb])
          /\ shutdown_from(2, sdTargets)
       \/ sd = "listener" /\ ~ListenerAlive
          /\ shutdown_from(3, sdTargets)
       \/ sd = "consumer" /\ ~ConsumerAlive
          /\ shutdown_from(4, sdTargets)
    /\ UNCHANGED <<dataVars, max_retries, runVars, ws, hb_task, queueVars, sdTargets,
                   sdCalls, parkedAt>>

\* ------------------------------------------------------------ environment
\* The peer (or the network) closes the open transport.
transport_closed ==
    /\ ws # 0
    /\ wsOpen
    /\ wsOpen' = FALSE
    /\ UNCHANGED <<dataVars, max_retries, runVars, ws, taskVars, queueVars, sdVars>>

Next ==
    \/ run_call
    \/ run_backoff_over
    \/ connect_raised
    \/ connect_opened
    \/ subscribe_raised
    \/ subscribe_done
    \/ connect_returned
    \/ \E i \in 1..Len(hbs) : heartbeat_loop(i)
    \/ \E i \in 1..Len(hbs) : heartbeat_pong(i)
    \/ \E i \in 1..Len(hbs) : heartbeat_ping_failed(i)
    \/ listen_frame
    \/ listen_closed
    \/ listen_cancelled
    \/ consumer_loop
    \/ consumer_wake
    \/ shutdown_call
    \/ shutdown_resume
    \/ transport_closed

Spec == Init /\ [][Next]_vars

\* run() against a network on which websockets.connect() never succeeds:
\* the retry loop alone, with budgets long enough to reach the backoff cap.
InitBackoff == InitBudget(MaxAttempts)

NextBackoff ==
    \/ run_call
    \/ run_backoff_over
    \/ connect_raised
    \/ shutdown_call

SpecBackoff == InitBackoff /\ [][NextBackoff]_vars

\* ============================================================ the frames
\* json.dumps(v) is the text of v (a record with the field json) and
\* json.loads(raw) gives v back; a text that is not JSON has no such field
\* and json.loads raises on it.
json_dumps(v) == [json |-> v]
IsJson(raw) == "json" \in DOMAIN raw
json_loads(raw) == raw.json

s_kbar == <<"k", "b", "a", "r">>
s_depth == <<"d", "e", "p", "t", "h">>
s_error == <<"e", "r", "r", "o", "r">>
s_pong == <<"p", "o", "n", "g">>
s_ticker == <<"t", "i", "c", "k", "e", "r">>
s_btc == <<"b", "t", "c">>

\* self._message_callback is set: initialize_components passes
\* handle_message.
message_callback == TRUE

\* deque(maxlen=200)
WindowCap == 200

\* A faulty deque_append (the deque has no maxlen); C15 must not survive
\* it.
deque_append_unbounded(w, x) == Append(w, x)

\* deque.append(x) on a deque of maxlen WindowCap
deque_append(w, x) ==
    IF Len(w) >= WindowCap THEN Append(Tail(w), x) ELSE Append(w, x)

\* deque(records, maxlen=200): the last WindowCap of the records
deque_of(records) ==
    IF Len(records) > WindowCap
    THEN SubSeq(records, Len(records) - WindowCap + 1, Len(records))
    ELSE records

\* self.df_store[key] of the defaultdict
window(key) == IF key \in DOMAIN df_store THEN df_store[key] ELSE <<>>

\* IndicatorCalculator(df).calculate_rsi()... on pd.DataFrame(window): the
\* frame has the column close_price when some bar has that key, and
\* self.df['close_price'] raises KeyError when it has not.
indicator_raises(w) ==
    ~\E i \in 1..Len(w) : "close_price" \in DOMAIN w[i].dict

\* what a call of _handle_ws_message leaves behind: the stores, the texts
\* sent, the callback calls made, and the exception it ended with
Handled(df, ob, out, fwd, exc) ==
    [df |-> df, ob |-> ob, out |-> out, fwd |-> fwd, exc |-> exc]
Dropped == Handled(df_store, order_books, <<>>, <<>>, "none")
Raised == Handled(df_store, order_books, <<>>, <<>>, "handler")

\* A faulty kbar_key (the frame's timeframe is used as it came); C16 must
\* not survive it.
kbar_key_raw(symbol, kbar_tf) == <<symbol, kbar_tf>>

\* key = (symbol, canonical_tf)
kbar_key(symbol, kbar_tf) == <<symbol, normalize_tf(kbar_tf)>>

\* the `subscribe_type == "kbar"` branch
handle_kbar(msg, data) ==
    IF ~IsDict(data)
    THEN Raised
    ELSE LET symbol == get(data, "symbol", PyNone)
             kbar_tf == get(msg, "kbar", PyNone)
             arg == IF Truthy(kbar_tf) THEN kbar_tf ELSE Str(<<>>)
         IN  IF ~IsStr(arg) \/ IsDict(symbol) \/ IsList(symbol)
             THEN Raised
             ELSE LET key == kbar_key(symbol, arg.str)
                      w == deque_append(window(key), data)
                  IN  Handled((key :> w) @@ df_store, order_books, <<>>,
                              <<>>,
                              IF indicator_raises(w) THEN "handler"
                              ELSE "none")

\* A faulty handle_depth (the frame's data is merged into the snapshot
\* the symbol has).
handle_depth_merge(data) ==
    IF ~IsDict(data)
    THEN Raised
    ELSE LET symbol == get(data, "symbol", PyNone)
             old == IF symbol \in DOMAIN order_books
                    THEN order_books[symbol].dict ELSE <<>>
         IN  IF ~Truthy(symbol)
             THEN Dropped
             ELSE IF IsDict(symbol) \/ IsList(symbol)
             THEN Raised
             ELSE Handled(df_store,
                          (symbol :> Dict(data.dict @@ old)) @@ order_books,
                          <<>>, <<>>, "none")

\* the `subscribe_type == "depth"` branch
handle_depth(data) ==
    IF ~IsDict(data)
    THEN Raised
    ELSE LET symbol == get(data, "symbol", PyNone)
         IN  IF ~Truthy(symbol)
             THEN Dropped
             ELSE IF IsDict(symbol) \/ IsList(symbol)
             THEN Raised
             ELSE Handled(df_store, (symbol :> data) @@ order_books, <<>>,
                          <<>>, "none")

\* ---------------------------------------------------- the signal pathway
\* A namespace in which the file had imported datetime and pandas.
SignalGlobalsImported ==
    {"process_tick_data", "update_dataframe", "calculate_indicators",
     "detect_signal", "handle_new_signal", "datetime", "pd"}

\* the names bound in the namespace of core/signal_handler.py: its own
\* functions (the file imports nothing)
SignalGlobals ==
    {"process_tick_data", "update_dataframe", "calculate_indicators",
     "detect_signal", "handle_new_signal"}

\* updated_df.iloc[-100:]
SignalCap == 100

\* update_dataframe(df, new_row): the last SignalCap rows of df with
\* new_row added
update_dataframe(df, new_row) ==
    LET updated_df == Append(df, new_row)
    IN  IF Len(updated_df) > SignalCap
        THEN SubSeq(updated_df, Len(updated_df) - SignalCap + 1,
                    Len(updated_df))
        ELSE updated_df

\* how a call of process_tick_data ends: the store it leaves, whether it
\* raised, and the frame calculate_indicators was called with (none: it
\* was not called)
Ticked(store, exc, on) == [df |-> store, exc |-> exc, on |-> on]

\* A faulty process_tick_data (it keeps count of its calls and only looks
\* at the tick from its second call on).
process_tick_data_stateful(data, symbol, store, globals) ==
    Ticked(store, passes = <<>>, <<>>)

\* process_tick_data(data, symbol, df_store) with the names in `globals`
\* bound.  df_store is the client's defaultdict: reading a missing key
\* stores an empty deque under it, and a deque has no ["1min"].  The
\* signal of lines 23-26 is a function of the frame of line 21.
process_tick_data(data, symbol, store, globals) ==
    LET tick == get(data, "tick", PyNone)
        latest == IF IsDict(tick) THEN get(tick, "latest", PyNone)
                  ELSE PyNone
        ts == get(data, "ts", PyNone)
        tf_1min == <<"1">> \o s_min
        key == <<Str(symbol)>>
        read == IF key \in DOMAIN store THEN store
                ELSE (key :> <<>>) @@ store
        by_tf == read[key]
        df == by_tf.dict[tf_1min]
        new_row == Dict(("timestamp" :> ts) @@ ("close_price" :> latest)
                        @@ df[Len(df)].dict)
    IN  IF ~IsNum(latest) THEN Ticked(store, TRUE, <<>>)
        ELSE IF "datetime" \notin globals \/ ~IsNum(ts)
        THEN Ticked(store, TRUE, <<>>)
        ELSE IF DOMAIN by_tf # {"dict"} \/ tf_1min \notin DOMAIN by_tf.dict
        THEN Ticked(read, TRUE, <<>>)
        ELSE IF df = <<>> THEN Ticked(read, TRUE, <<>>)
        ELSE IF ~(get(df[Len(df)], "timestamp", Num(0)).num < ts.num)
        THEN Ticked(read, FALSE, <<>>)
        ELSE IF "pd" \notin globals THEN Ticked(read, TRUE, <<>>)
        ELSE Ticked((key :> Dict((tf_1min :> update_dataframe(df, new_row))
                                 @@ by_tf.dict)) @@ read,
                    FALSE, <<df>>)

\* handle_message(data, df_store, order_books) past its lazy imports: the
\* symbol is the part of `subscribe` after the last dot, and whatever
\* process_fn raises is logged here
handle_message(data, store) ==
    LET sub == get(data, "subscribe", PyNone).str
        dots == {i \in 1..Len(sub) : sub[i] = "."}
        last == CHOOSE i \in dots : \A j \in dots : j <= i
    IN  process_tick_data(data, SubSeq(sub, last + 1, Len(sub)), store,
                          SignalGlobals).df

\* "Forward ONLY ticker.* to core.message_handler": the callback is awaited
\* with the decoded frame and the stores themselves; what it raises (the
\* lazy import of core.tick_handler in handle_message) is logged here.
forward_ticker(msg, n, local, cb_raises) ==
    LET sub == get(msg, "subscribe", Str(<<>>))
    IN  IF /\ message_callback
           /\ IsDict(msg)
           /\ IsStr(sub)
           /\ startswith(sub.str, s_ticker \o <<".">>)
        THEN [local EXCEPT !.fwd = <<[frame |-> n, msg |-> msg]>>,
                           !.df = IF cb_raises THEN local.df
                                  ELSE handle_message(msg, local.df),
                           !.exc = IF cb_raises THEN "callback" ELSE "none"]
        ELSE local

\* _handle_ws_message(raw) for the n-th frame; self.ws.send raises on a
\* closed transport
handle_ws_message(raw, n, cb_raises) ==
    IF ~IsJson(raw)
    THEN Dropped
    ELSE LET msg == json_loads(raw)
         IN  IF ~IsDict(msg)
             THEN Raised
             ELSE LET ping_val == get(msg, "ping", PyNone)
                      subscribe_type == get(msg, "subscribe", Str(<<>>))
                      data == get(msg, "data", Dict(<<>>))
                      local == IF subscribe_type = Str(s_kbar)
                               THEN handle_kbar(msg, data)
                               ELSE IF subscribe_type = Str(s_depth)
                               THEN handle_depth(data)
                               ELSE Dropped
                  IN  IF Truthy(ping_val)
                      THEN IF wsOpen
                           THEN Handled(df_store, order_books,
                                        <<json_dumps(Dict(
                                             ("action" :> Str(s_pong))
                                             @@ ("pong" :> ping_val)))>>,
                                        <<>>, "none")
                           ELSE Raised
                      ELSE IF get(msg, "status", PyNone) = Str(s_error)
                      THEN Dropped
                      ELSE IF local.exc # "none"
                      THEN local
                      ELSE forward_ticker(msg, n, local, cb_raises)

\* A faulty queue_except (an exception that leaves the handler ends the
\* consumer task); C14 must not survive it.
queue_except_crash(exc) == IF exc = "handler" THEN "failed" ELSE "ready"

\* The try of process_message_queue around the handler: `except Exception`
\* logs whatever left the handler, and the loop goes on.
queue_except(exc) == "ready"

\* `await self._handle_ws_message(raw)` for the n-th frame, inside that try
dispatch(n, cb_raises) ==
    LET r == handle_ws_message(frames[n], n, cb_raises)
    IN  /\ df_store' = r.df
        /\ order_books' = r.ob
        /\ sent' = sent \o r.out
        /\ forwarded' = forwarded \o r.fwd
        /\ absorbed' = IF r.exc = "none"
                       THEN absorbed
                       ELSE Append(absorbed, [frame |-> n, by |-> r.exc])
        /\ consumer' = queue_except(r.exc)

\* consumer_take with the handler's effect on the stores
consumer_take_dispatch(cb_raises) ==
    /\ queue' = Tail(queue)
    /\ stale' = IF stale.queued > 0
                THEN [queued |-> stale.queued - 1,
                      taken |-> Append(stale.taken, Head(queue))]
                ELSE stale
    /\ IF Head(queue) = None
       THEN /\ consumer' = "done"
            /\ UNCHANGED <<handled, df_store, order_books, sent, forwarded,
                           absorbed>>
       ELSE /\ handled' = Append(handled, Head(queue))
            /\ dispatch(Head(queue), cb_raises)

\* consumer_loop with the handler's effect on the stores
consumer_loop_dispatch ==
    /\ consumer = "ready"
    /\ IF ~is_running
       THEN /\ consumer' = "done"
            /\ UNCHANGED <<queue, handled, stale, df_store, order_books, sent,
                           forwarded, absorbed>>
       ELSE IF queue = <<>>
            THEN /\ consumer' = "parked"
                 /\ UNCHANGED <<queue, handled, stale, df_store, order_books, sent,
                                forwarded, absorbed>>
            ELSE \E cb_raises \in BOOLEAN : consumer_take_dispatch(cb_raises)
    /\ UNCHANGED <<max_retries, runVars, ws, wsOpen, hbs, hb_task,
                   listener, nframes, sdVars, frames, configVars,
                   subscribeVars, callVars>>

\* consumer_wake with the handler's effect on the stores
consumer_wake_dispatch ==
    /\ consumer = "parked"
    /\ queue # <<>>
    /\ \E cb_raises \in BOOLEAN : consumer_take_dispatch(cb_raises)
    /\ UNCHANGED <<max_retries, runVars, ws, wsOpen, hbs, hb_task,
                   listener, nframes, sdVars, frames, configVars,
                   subscribeVars, callVars>>

\* listen_frame with the text of the frame
listen_raw(raw) ==
    /\ listener \in {"new", "reading"}
    /\ wsOpen
    /\ nframes' = nframes + 1
    /\ queue' = Append(queue, nframes + 1)
    /\ frames' = Append(frames, raw)
    /\ listener' = "reading"
    /\ UNCHANGED <<max_retries, runVars, ws, wsOpen, hbs, hb_task,
                   consumer, handled, stale, sdVars, df_store, order_books,
                   sent,
                   forwarded, absorbed, configVars, subscribeVars, callVars>>

\* ------------------------------------------------ the frames of the server
\* bars and depth snapshots, with and without the keys the handler reads
BarFull == Dict(("symbol" :> Str(s_btc)) @@ ("close_price" :> Num(1)))
BarNoClose == Dict("symbol" :> Str(s_btc))
BarNoSymbol == Dict("close_price" :> Num(1))

\* the fields a frame has besides ping and status: a kbar, a depth and a
\* ticker frame as the handler expects them
CorePayloads ==
    { ("subscribe" :> Str(s_kbar)) @@ ("kbar" :> Str(<<"1", "h">>))
          @@ ("data" :> BarFull),
      ("subscribe" :> Str(s_depth)) @@ ("data" :> BarFull),
      ("subscribe" :> Str(s_ticker \o <<".">> \o s_btc))
          @@ ("tick" :> Dict("latest" :> Num(1))) @@ ("ts" :> Num(1000)) }

\* and the frames that differ from those in one respect
EdgePayloads ==
    { ("subscribe" :> Str(s_kbar)) @@ ("kbar" :> Str(<<"H", "1">>))
          @@ ("data" :> BarFull),
      ("subscribe" :> Str(s_kbar)) @@ ("data" :> BarFull),
      ("subscribe" :> Str(s_kbar)) @@ ("kbar" :> Str(<<"1", "h">>))
          @@ ("data" :> BarNoClose),
      ("subscribe" :> Str(s_kbar)) @@ ("kbar" :> Num(60))
          @@ ("data" :> BarFull),
      ("subscribe" :> Str(s_depth)) @@ ("data" :> BarNoSymbol),
      ("subscribe" :> Str(s_depth))
          @@ ("data" :> Dict(("symbol" :> Str(s_btc)) @@ ("asks" :> Num(2)))),
      ("subscribe" :> Str(s_depth))
          @@ ("data" :> Dict(("symbol" :> Str(<<"e", "t", "h">>))
                             @@ ("bids" :> Num(3)))),
      ("subscribe" :> Str(s_depth))
          @@ ("data" :> Dict(("symbol" :> Str(<<>>)) @@ ("bids" :> Num(3)))),
      ("subscribe" :> Str(s_ticker \o s_btc)) @@ ("data" :> BarFull),
      ("subscribe" :> Str(<<"x">> \o s_ticker \o <<".">> \o s_btc)),
      ("subscribe" :> Num(7)) @@ ("data" :> BarFull),
      ("data" :> BarFull) }

\* ping and status: absent, a ping with a nonce, a ping whose value is 0,
\* a server error, and both
Headers ==
    { <<>>,
      "ping" :> Str(<<"7">>),
      "ping" :> Num(0),
      "status" :> Str(s_error),
      ("ping" :> Str(<<"7">>)) @@ ("status" :> Str(s_error)) }

\* what the listener can read: the JSON objects above, JSON that is not an
\* object, and text that is not JSON
RawFrames ==
    { json_dumps(Dict(h @@ p)) : h \in Headers, p \in CorePayloads }
    \cup { json_dumps(Dict(p)) : p \in EdgePayloads }
    \cup { json_dumps(List(<<>>)), [text |-> <<"{">>] }

\* A Live session: run() has called connect(), the transport is open, the
\* subscriptions are sent (no series has a REST code to prefill from) and
\* the three tasks are created.
InitLive ==
    /\ max_retries = 1
    /\ retries = 0
    /\ is_running = TRUE
    /\ pc = "live"
    /\ ws = 1
    /\ wsOpen = TRUE
    /\ hbs = <<[st |-> "pending", on |-> 0]>>
    /\ hb_task = 1
    /\ listener = "new"
    /\ consumer = "ready"
    /\ queue = <<>>
    /\ nframes = 0
    /\ handled = <<>>
    /\ stale = [queued |-> 0, taken |-> <<>>]
    /\ sd = "idle"
    /\ sdTargets = NoTargets
    /\ sdCalls = 0
    /\ attempts = 1
    /\ waits = <<>>
    /\ parkedAt = -1
    /\ InitStores
    /\ InitNoSeries
    /\ InitNoCall

\* The listener reads one of RawFrames.
listen_any ==
    /\ nframes < MaxFrames
    /\ \E raw \in RawFrames : listen_raw(raw)

NextDispatch ==
    \/ listen_any
    \/ listen_closed
    \/ transport_closed
    \/ consumer_loop_dispatch
    \/ consumer_wake_dispatch

SpecDispatch == InitLive /\ [][NextDispatch]_vars

\* ====================================================== subscribing
s_subscribe == <<"s", "u", "b", "s", "c", "r", "i", "b", "e">>

\* int(self.config.get("DEPTH_LEVEL", 50))
DepthLevel == 50

\* the parameters of fetch_initial_kline, and the keywords prefill_data
\* calls it with
FetchParams == {"symbol", "interval", "size", "rest_code_map"}
PrefillKeywords == {"symbol", "interval", "size", "rest_code_map", "logger"}

\* the keys of the dict `minutes` of fetch_initial_kline
FetchMinutes ==
    { <<"4", "h">>, <<"1", "h">>, <<"1", "5">> \o s_min, <<"5">> \o s_min,
      <<"1">> \o s_min }

\* fetch_initial_kline(symbol, interval, size, rest_code_map) when the REST
\* service answers with `reply` bars (none: the request failed or brought
\* no data): the records of the frame returned, or that it raised
fetch_initial_kline(interval, codes, reply) ==
    IF interval \notin DOMAIN codes \/ interval \notin FetchMinutes
    THEN [raised |-> TRUE, records |-> <<>>]
    ELSE [raised |-> FALSE, records |-> reply]

\* prefill_data(symbol, timeframe): how the call ends and the store it
\* leaves.  Calling fetch_initial_kline with a keyword it does not have
\* raises TypeError before its body runs.
prefill_data(symbol, timeframe, reply) ==
    LET canonical == normalize_tf(timeframe)
        fetched == fetch_initial_kline(canonical, rest_code_map, reply)
    IN  IF \/ canonical \notin DOMAIN rest_code_map
           \/ ~Truthy(rest_code_map[canonical])
        THEN [outcome |-> "skipped", df |-> df_store]
        ELSE IF ~(PrefillKeywords \subseteq FetchParams) \/ fetched.raised
        THEN [outcome |-> "raised", df |-> df_store]
        ELSE [outcome |-> "stored",
              df |-> (<<Str(symbol), timeframe>>
                          :> deque_of(fetched.records)) @@ df_store]

\* the pairs of `for symbol in self.symbols: for tf in self.timeframes`
NSeries == Len(symbols) * Len(timeframes)
SeriesSymbol(i) == symbols[((i - 1) \div Len(timeframes)) + 1]
SeriesTf(i) == timeframes[((i - 1) % Len(timeframes)) + 1]

\* the two subscribe requests of one pair
kbar_msg(symbol, t) ==
    json_dumps(Dict(("action" :> Str(s_subscribe))
                    @@ ("subscribe" :> Str(s_kbar))
                    @@ ("kbar" :> IF t \in DOMAIN timeframe_mapping
                                  THEN timeframe_mapping[t] ELSE PyNone)
                    @@ ("pair" :> Str(symbol))))
depth_msg(symbol) ==
    json_dumps(Dict(("action" :> Str(s_subscribe))
                    @@ ("subscribe" :> Str(s_depth))
                    @@ ("pair" :> Str(symbol))
                    @@ ("depth" :> Num(DepthLevel))))

\* One turn of the loop of subscribe_to_channels in which no prefill
\* raises: prefill, the kbar and the depth request, prefill again.
subscribe_series ==
    /\ pc = "subscribing"
    /\ series < NSeries
    /\ \E first, again \in {<<>>, <<BarFull>>} :
        LET symbol == SeriesSymbol(series + 1)
            t == SeriesTf(series + 1)
            p == prefill_data(symbol, t, first)
            q == prefill_data(symbol, t, again)
        IN  /\ p.outcome # "raised"
            /\ df_store' = q.df
            /\ prefills' = prefills \o
                   << [symbol |-> symbol, timeframe |-> t,
                       outcome |-> p.outcome],
                      [symbol |-> symbol, timeframe |-> t,
                       outcome |-> q.outcome] >>
            /\ sent' = sent \o <<kbar_msg(symbol, t), depth_msg(symbol)>>
    /\ series' = series + 1
    /\ UNCHANGED <<max_retries, runVars, ws, wsOpen, taskVars, queueVars,
                   sdVars, frames, order_books, forwarded, absorbed,
                   configVars, callVars>>

\* The first prefill of a turn raises: nothing in prefill_data or in
\* subscribe_to_channels catches it, `async with` closes the transport and
\* the exception reaches run()'s handler.
subscribe_prefill_raised ==
    /\ pc = "subscribing"
    /\ series < NSeries
    /\ \E reply \in {<<>>, <<BarFull>>} :
        LET symbol == SeriesSymbol(series + 1)
            t == SeriesTf(series + 1)
            p == prefill_data(symbol, t, reply)
        IN  /\ p.outcome = "raised"
            /\ prefills' = Append(prefills,
                   [symbol |-> symbol, timeframe |-> t,
                    outcome |-> p.outcome])
    /\ series' = 0
    /\ wsOpen' = FALSE
    /\ run_except
    /\ UNCHANGED <<max_retries, ws, taskVars, queueVars, sdVars,
                   dispatchVars, configVars, callVars>>

\* The loop of subscribe_to_channels is over: subscribe_done.
subscribe_finished ==
    /\ pc = "subscribing"
    /\ series = NSeries
    /\ listener' = "new"
    /\ consumer' = "ready"
    /\ stale' = [stale EXCEPT !.queued = Len(queue)]
    /\ pc' = "live"
    /\ series' = 0
    /\ UNCHANGED <<max_retries, retries, is_running, attempts, waits, ws,
                   wsOpen, hbs, hb_task, queue, nframes, handled, sdVars,
                   dispatchVars, configVars, prefills, callVars>>

\* ------------------------------------------- a session, from run() on
s_1h == <<"1", "h">>
s_h1 == <<"h", "1">>
s_5m == <<"5", "m">>

\* The client after __init__ with one symbol, one or two timeframes as
\* load_configuration gives them (lower case, aliases as written), and
\* code maps that know the canonical tokens or nothing.
InitSession ==
    /\ InitManager(MaxBudget)
    /\ InitStores
    /\ InitNoCall
    /\ symbols = <<s_btc>>
    /\ timeframes \in {<<a>> : a \in {s_1h, s_h1, s_5m}}
                      \cup {<<a, b>> : a, b \in {s_1h, s_h1, s_5m}}
    /\ timeframe_mapping \in {<<>>, s_1h :> Str(s_hour \o <<"1">>)}
    /\ rest_code_map \in {<<>>, s_1h :> Str(s_hour \o <<"1">>),
                          s_5m :> Str(s_minute \o <<"5">>)}

\* The listener reads a kbar frame of btc, its timeframe spelled in one of
\* two ways or left out.
listen_kbar ==
    /\ nframes < MaxFrames
    /\ \E k \in {"kbar" :> Str(s_1h), "kbar" :> Str(upper(s_h1)), <<>>} :
           listen_raw(json_dumps(Dict(("subscribe" :> Str(s_kbar)) @@ k
                                      @@ ("data" :> BarFull))))

NextSession ==
    \/ run_call
    \/ run_backoff_over
    \/ connect_raised
    \/ connect_opened
    \/ subscribe_series
    \/ subscribe_prefill_raised
    \/ subscribe_finished
    \/ \E i \in 1..Len(hbs) : heartbeat_loop(i)
    \/ listen_kbar
    \/ consumer_loop_dispatch
    \/ consumer_wake_dispatch

SpecSession == InitSession /\ [][NextSession]_vars

\* --------------------------------------- a long stream of one series
\* The client after __init__ with the one series (btc, h1).
InitWindow ==
    /\ InitManager(1)
    /\ InitStores
    /\ InitNoCall
    /\ symbols = <<s_btc>>
    /\ timeframes = <<s_h1>>
    /\ timeframe_mapping = <<>>
    /\ rest_code_map \in {<<>>, s_1h :> Str(s_hour \o <<"1">>)}

\* the n-th kbar frame of the stream: the bars are numbered by their close
\* price, the timeframe is spelled in three ways in turn
StreamFrame(n) ==
    json_dumps(Dict(
        ("subscribe" :> Str(s_kbar))
        @@ ("kbar" :> Str(<<s_1h, upper(s_h1), s_hour \o <<"1">> >>[(n % 3) + 1]))
        @@ ("data" :> Dict(("symbol" :> Str(s_btc))
                           @@ ("timestamp" :> Num((n + 1) \div 2))
                           @@ ("close_price" :> Num(n))))))

\* The listener reads the next frame of the stream, the consumer having
\* handled the ones before.
listen_stream ==
    /\ nframes < MaxStream
    /\ queue = <<>>
    /\ listen_raw(StreamFrame(nframes + 1))

NextWindow ==
    \/ run_call
    \/ run_backoff_over
    \/ connect_opened
    \/ subscribe_series
    \/ subscribe_prefill_raised
    \/ subscribe_finished
    \/ listen_stream
    \/ consumer_loop_dispatch
    \/ consumer_wake_dispatch

SpecWindow == InitWindow /\ [][NextWindow]_vars

\* ----------------------------------------------------------- normalizer
\* normalize_tf called on a timeframe string, and again on what it gave.


\* the strings of at most n characters over four characters, tried besides
\* the aliases
RECURSIVE TfWords(_)
TfWords(n) ==
    IF n = 0 THEN {<<>>}
    ELSE LET shorter == TfWords(n - 1)
         IN  shorter \cup {Append(w, c) : w \in shorter, c \in {"1", "h", "H", "x"}}

\* every alias of the table, as written and in upper case, and the words
TfInputs ==
    LET alts == UNION {{aliases[g].alts[i] : i \in 1..Len(aliases[g].alts)} :
                           g \in 1..Len(aliases)}
    IN  alts \cup {upper(a) : a \in alts} \cup TfWords(MaxTfLen)

InitNormalize ==
    /\ InitManager(0)
    /\ InitStores
    /\ InitNoSeries
    /\ tf \in TfInputs
    /\ canonical_tf = <<>>
    /\ plan = <<>>
    /\ selected = <<>>
    /\ InitNoEval

\* canonical_tf = normalize_tf(tf), then normalize_tf(canonical_tf)
normalize_call ==
    /\ Len(canonical_tf) < 2
    /\ canonical_tf' =
           Append(canonical_tf,
                  normalize_tf(IF canonical_tf = <<>> THEN tf
                               ELSE canonical_tf[1]))
    /\ UNCHANGED <<max_retries, retries, is_running, pc, ws, wsOpen, hbs,
                   hb_task, listener, consumer, queue, nframes, handled, stale, sd,
                   sdTargets, sdCalls, attempts, waits, parkedAt,
                   dispatchVars, configVars, subscribeVars,
                   tf, plan, selected, ind_df, ind_out, config, boot,
                   passes>>

SpecNormalize == InitNormalize /\ [][normalize_call]_vars

\* -------------------------------------------------------------- planner
\* TradePlanner.select_best_sl_tp on a plan: a dict from method names to
\* values, here the sequence of its items in enumeration order.  RRR is
\* counted in tenths.


\* the keys of the plans tried, in the order they were inserted
Methods == << <<"A">>, <<"B">>, <<"C">>, <<"D">> >>

\* the values tried: candidates with and without `valid` and `RRR`, and
\* one value that is not a dict
PlanValues ==
    {Dict(("valid" :> Bool(TRUE)) @@ ("RRR" :> Num(r))) :
         r \in {-10, 0, 15, 30, 50}}
    \cup {Dict("valid" :> Bool(TRUE))}
    \cup {Dict(("valid" :> Bool(FALSE)) @@ ("RRR" :> Num(r))) : r \in {30, 50}}
    \cup {Dict("valid" :> Bool(FALSE)), Dict("RRR" :> Num(50)), Num(5)}

s_no_valid ==
    <<"N", "o", " ", "v", "a", "l", "i", "d", " ", "S", "L", "/", "T", "P",
      " ", "m", "e", "t", "h", "o", "d", " ", "f", "o", "u", "n", "d">>

\* A faulty return (the result without the failure marker).
select_return_unmarked(best_method, best_result) == best_result

\* return best_result if best_method else {"error": ...}
select_return(best_method, best_result) ==
    IF Truthy(best_method) THEN best_result
    ELSE Dict("error" :> Str(s_no_valid))

\* the loop of select_best_sl_tp from item i on
RECURSIVE select_scan(_, _, _, _, _)
select_scan(p, i, best_method, best_rrr, best_result) ==
    IF i > Len(p) THEN select_return(best_method, best_result)
    ELSE LET method == Str(Methods[i])
             values == p[i]
             rrr == get(values, "RRR", Num(0))
         IN  IF ~IsDict(values)
             THEN select_scan(p, i + 1, best_method, best_rrr, best_result)
             ELSE IF /\ Truthy(get(values, "valid", PyNone))
                     /\ rrr.num > best_rrr
             THEN select_scan(p, i + 1, method, rrr.num,
                              Dict(("method" :> method) @@ values.dict))
             ELSE select_scan(p, i + 1, best_method, best_rrr, best_result)

select_best_sl_tp(p) == select_scan(p, 1, PyNone, 0, Dict(<<>>))

InitPlanner ==
    /\ InitManager(0)
    /\ InitStores
    /\ InitNoSeries
    /\ tf = <<>>
    /\ canonical_tf = <<>>
    /\ plan \in UNION {[1..n -> PlanValues] : n \in 0..MaxPlan}
    /\ selected = <<>>
    /\ InitNoEval

\* selected = planner.select_best_sl_tp(plan); the plan is only read
select_call ==
    /\ selected = <<>>
    /\ selected' = <<select_best_sl_tp(plan)>>
    /\ UNCHANGED <<max_retries, retries, is_running, pc, ws, wsOpen, hbs,
                   hb_task, listener, consumer, queue, nframes, handled, stale, sd,
                   sdTargets, sdCalls, attempts, waits, parkedAt,
                   dispatchVars, configVars, subscribeVars,
                   tf, canonical_tf, plan, ind_df, ind_out, config, boot,
                   passes>>

SpecPlanner == InitPlanner /\ [][select_call]_vars

\* ----------------------------------------------------------- indicators
\* An IndicatorCalculator on a frame: a function from column names to
\* columns of equal length.  A cell is a number, NaN, or Float: a float
\* computed from cells that are not NaN, whose value is not followed.

NaN == [nan |-> TRUE]
Float == [float |-> TRUE]

\* s.rolling(period).mean() (and .std(), .max(), .min()): NaN until the
\* window is full of cells that are not NaN
rolling(s, period) ==
    [i \in 1..Len(s) |->
        IF i >= period /\ \A j \in (i - period + 1)..i : s[j] # NaN
        THEN Float ELSE NaN]

\* s.ewm(span=...).mean(): min_periods is 0, so there is a value from the
\* first cell that is not NaN on
ewm(s) ==
    [i \in 1..Len(s) |->
        IF \E j \in 1..i : s[j] # NaN THEN Float ELSE NaN]

\* s.shift(periods)
shift(s, periods) ==
    [i \in 1..Len(s) |->
        IF (i - periods) \in 1..Len(s) THEN s[i - periods] ELSE NaN]

\* a + b, a - b, a / b, np.maximum(a, b), cell by cell
arith(a, b) ==
    [i \in 1..Len(a) |-> IF a[i] = NaN \/ b[i] = NaN THEN NaN ELSE Float]

\* how a method call ends: KeyError for a column the frame has not, or
\* the frame with the columns the method set
KeyError(d) == [raised |-> TRUE, df |-> d]
Returns(d) == [raised |-> FALSE, df |-> d]

calculate_bollinger(d) ==
    IF "close_price" \notin DOMAIN d THEN KeyError(d)
    ELSE LET boll_sma == rolling(d["close_price"], 20)
             boll_std == rolling(d["close_price"], 20)
         IN  Returns(("boll_sma" :> boll_sma) @@ ("boll_std" :> boll_std)
                     @@ ("boll_upper" :> arith(boll_sma, boll_std))
                     @@ ("boll_lower" :> arith(boll_sma, boll_std)) @@ d)

calculate_rsi(d) ==
    IF "close_price" \notin DOMAIN d THEN KeyError(d)
    ELSE LET delta == arith(d["close_price"], shift(d["close_price"], 1))
             rs == arith(rolling(delta, 14), rolling(delta, 14))
         IN  Returns(("rsi" :> rs) @@ d)

calculate_macd(d) ==
    IF "close_price" \notin DOMAIN d THEN KeyError(d)
    ELSE LET macd == arith(ewm(d["close_price"]), ewm(d["close_price"]))
             macd_signal == ewm(macd)
         IN  Returns(("macd" :> macd) @@ ("macd_signal" :> macd_signal)
                     @@ ("macd_hist" :> arith(macd, macd_signal)) @@ d)

calculate_keltner(d) ==
    IF {"close_price", "high_price", "low_price"} \subseteq DOMAIN d
    THEN LET prev == shift(d["close_price"], 1)
             ema == ewm(d["close_price"])
             tr == arith(arith(d["high_price"], d["low_price"]),
                         arith(arith(d["high_price"], prev),
                               arith(d["low_price"], prev)))
             atr == rolling(tr, 10)
         IN  Returns(("ema" :> ema) @@ ("tr" :> tr) @@ ("atr" :> atr)
                     @@ ("keltner_upper" :> arith(ema, atr))
                     @@ ("keltner_lower" :> arith(ema, atr)) @@ d)
    ELSE KeyError(d)

calculate_ichimoku(d) ==
    IF {"close_price", "high_price", "low_price"} \subseteq DOMAIN d
    THEN LET high == d["high_price"]
             low == d["low_price"]
             tenkan_sen == arith(rolling(high, 9), rolling(low, 9))
             kijun_sen == arith(rolling(high, 26), rolling(low, 26))
         IN  Returns(("tenkan_sen" :> tenkan_sen)
                     @@ ("kijun_sen" :> kijun_sen)
                     @@ ("senkou_span_a" :>
                             shift(arith(tenkan_sen, kijun_sen), 26))
                     @@ ("senkou_span_b" :>
                             shift(arith(rolling(high, 52),
                                         rolling(low, 52)), 26))
                     @@ ("chikou_span" :> shift(d["close_price"], -26))
                     @@ d)
    ELSE KeyError(d)

\* series.iloc[0]: a faulty choice of the swing.
iloc_first(s) == s[1]

\* series.iloc[-1]
iloc_last(s) == s[Len(s)]

\* calculate_fibonacci(): the levels are kept in thousandths
calculate_fibonacci(d) ==
    IF {"swing_high", "swing_low"} \subseteq DOMAIN d
    THEN LET swing_highs == SelectSeq(d["swing_high"], LAMBDA c : c # NaN)
             swing_lows == SelectSeq(d["swing_low"], LAMBDA c : c # NaN)
             all(v) == [i \in 1..Len(d["swing_high"]) |-> v]
         IN  IF swing_highs = <<>> \/ swing_lows = <<>>
             THEN Returns([k \in {"fib_0", "fib_23.6", "fib_38.2", "fib_50.0",
                                  "fib_61.8", "fib_78.6", "fib_100"}
                              |-> all(NaN)] @@ d)
             ELSE LET last_high == iloc_last(swing_highs).num
                      last_low == iloc_last(swing_lows).num
                      diff == last_high - last_low
                      level(r) == all(Num(1000 * last_high - r * diff))
                  IN  Returns(("fib_0" :> all(Num(1000 * last_low)))
                              @@ ("fib_23.6" :> level(236))
                              @@ ("fib_38.2" :> level(382))
                              @@ ("fib_50.0" :> level(500))
                              @@ ("fib_61.8" :> level(618))
                              @@ ("fib_78.6" :> level(786))
                              @@ ("fib_100" :> all(Num(1000 * last_high)))
                              @@ d)
    ELSE KeyError(d)

\* A faulty classify (the doji test is left out).
classify_without_doji(doji, bullish_score, bearish_score) ==
    IF bullish_score > bearish_score THEN "Bullish"
    ELSE IF bearish_score > bullish_score THEN "Bearish"
    ELSE "Neutral"

\* classify(row)
classify(doji, bullish_score, bearish_score) ==
    IF doji THEN "Neutral"
    ELSE IF bullish_score > bearish_score THEN "Bullish"
    ELSE IF bearish_score > bullish_score THEN "Bearish"
    ELSE "Neutral"

\* detect_candlestick_patterns() on a frame with rows; a comparison with
\* the NaN that shift(1) puts before the first row is false
detect_candlestick_patterns(d) ==
    IF {"close_price", "open_price", "high_price", "low_price"}
           \subseteq DOMAIN d
    THEN LET open(i) == d["open_price"][i].num
             close(i) == d["close_price"][i].num
             bullish_candle(i) == close(i) > open(i)
             bearish_candle(i) == close(i) < open(i)
             body(i) == IF close(i) > open(i) THEN close(i) - open(i)
                        ELSE open(i) - close(i)
             range(i) == d["high_price"][i].num - d["low_price"][i].num
             upper_shadow(i) == d["high_price"][i].num
                                    - (IF bullish_candle(i) THEN close(i)
                                       ELSE open(i))
             lower_shadow(i) == (IF bullish_candle(i) THEN open(i)
                                 ELSE close(i)) - d["low_price"][i].num
             doji(i) == 10 * body(i) <= range(i)
             hammer(i) == /\ lower_shadow(i) > 2 * body(i)
                          /\ upper_shadow(i) < body(i)
                          /\ bullish_candle(i)
             inv_hammer(i) == /\ upper_shadow(i) > 2 * body(i)
                              /\ lower_shadow(i) < body(i)
                              /\ bullish_candle(i)
             bullish_engulfing(i) == /\ i > 1
                                     /\ bullish_candle(i)
                                     /\ open(i) < close(i - 1)
                                     /\ close(i) > open(i - 1)
                                     /\ bearish_candle(i - 1)
             bearish_engulfing(i) == /\ i > 1
                                     /\ bearish_candle(i)
                                     /\ open(i) > close(i - 1)
                                     /\ close(i) < open(i - 1)
                                     /\ bullish_candle(i - 1)
             count(b) == IF b THEN 1 ELSE 0
             bullish_score(i) == count(hammer(i)) + count(inv_hammer(i))
                                     + count(bullish_engulfing(i))
             bearish_score(i) == count(bearish_engulfing(i))
             rows == 1..Len(d["close_price"])
         IN  Returns(("doji" :> [i \in rows |-> Bool(doji(i))])
                     @@ ("bullish_score" :>
                             [i \in rows |-> Num(bullish_score(i))])
                     @@ ("bearish_score" :>
                             [i \in rows |-> Num(bearish_score(i))])
                     @@ ("patterns_result" :>
                             [i \in rows |->
                                 classify(doji(i), bullish_score(i),
                                          bearish_score(i))])
                     @@ d)
    ELSE KeyError(d)

\* IndicatorCalculator(d).method(): what the call gives
IndicatorCalculator(d, method) ==
    CASE method = "calculate_bollinger" -> calculate_bollinger(d)
      [] method = "calculate_rsi" -> calculate_rsi(d)
      [] method = "calculate_macd" -> calculate_macd(d)
      [] method = "calculate_keltner" -> calculate_keltner(d)
      [] method = "calculate_ichimoku" -> calculate_ichimoku(d)
      [] method = "calculate_fibonacci" -> calculate_fibonacci(d)
      [] method = "detect_candlestick_patterns" ->
             detect_candlestick_patterns(d)

\* The frames tried: candles of a few prices with low <= open, close <=
\* high; swing columns with and without swings; and long runs of one bar.
InitIndicator ==
    /\ InitManager(0)
    /\ InitStores
    /\ InitNoSeries
    /\ tf = <<>>
    /\ canonical_tf = <<>>
    /\ plan = <<>>
    /\ selected = <<>>
    /\ config = <<>>
    /\ boot = <<>>
    /\ passes = <<>>
    /\ ind_out = <<>>
    /\ LET prices == {0, 10, 11, 12}
           ohlc == {"open_price", "high_price", "low_price", "close_price"}
           bars == {b \in [ohlc -> prices] :
                       /\ b["low_price"] <= b["open_price"]
                       /\ b["low_price"] <= b["close_price"]
                       /\ b["high_price"] >= b["open_price"]
                       /\ b["high_price"] >= b["close_price"]}
           swings == {NaN, Num(10), Num(20)}
           flat == [c \in ohlc |-> 10]
       IN  \/ \E n \in 1..MaxCandles : \E rows \in [1..n -> bars] :
                  ind_df = [c \in ohlc |-> [i \in 1..n |-> Num(rows[i][c])]]
           \/ \E n \in 0..MaxSwings :
                  \E highs \in [1..n -> swings], lows \in [1..n -> swings] :
                      ind_df = ("swing_high" :> highs) @@ ("swing_low" :> lows)
           \/ \E n \in 0..MaxRows :
                  ind_df = [c \in ohlc |-> [i \in 1..n |-> Num(flat[c])]]

\* A method of IndicatorCalculator(ind_df) is called once.  (What pandas makes
\* of detect_candlestick_patterns on a frame with no rows is not followed.)
indicator_call ==
    /\ ind_out = <<>>
    /\ \E method \in {"calculate_bollinger", "calculate_rsi",
                       "calculate_macd", "calculate_keltner",
                       "calculate_ichimoku", "calculate_fibonacci",
                       "detect_candlestick_patterns"} :
        /\ method = "detect_candlestick_patterns" =>
               \A c \in DOMAIN ind_df : ind_df[c] # <<>>
        /\ ind_out' = <<[method |-> method,
                         call |-> IndicatorCalculator(ind_df, method)]>>
    /\ UNCHANGED <<max_retries, retries, is_running, pc, ws, wsOpen, hbs,
                   hb_task, listener, consumer, queue, nframes, handled, stale, sd,
                   sdTargets, sdCalls, attempts, waits, parkedAt,
                   dispatchVars, configVars, subscribeVars, tf, canonical_tf,
                   plan, selected, ind_df, config, boot, passes>>

SpecIndicator == InitIndicator /\ [][indicator_call]_vars

\* ------------------------------------ configuration: load, validate, boot
\* validate_config(config): how the call ends
validate_config(c) ==
    LET required_keys == {"WEBSOCKET_URL", "SYMBOLS", "TIMEFRAMES",
                          "TIMEFRAME_MAPPING", "REST_TIMEFRAME_CODES"}
        missing == {k \in required_keys :
                       k \notin DOMAIN c.dict \/ ~Truthy(c.dict[k])}
    IN  IF missing # {} THEN [raised |-> TRUE, exc |-> "ValueError"]
        ELSE IF ~IsDict(c.dict["TIMEFRAME_MAPPING"])
        THEN [raised |-> TRUE, exc |-> "TypeError"]
        ELSE IF ~IsDict(c.dict["REST_TIMEFRAME_CODES"])
        THEN [raised |-> TRUE, exc |-> "TypeError"]
        ELSE IF ~IsList(c.dict["SYMBOLS"]) \/ ~Truthy(c.dict["SYMBOLS"])
        THEN [raised |-> TRUE, exc |-> "TypeError"]
        ELSE IF ~IsList(c.dict["TIMEFRAMES"]) \/ ~Truthy(c.dict["TIMEFRAMES"])
        THEN [raised |-> TRUE, exc |-> "TypeError"]
        ELSE [raised |-> FALSE, exc |-> "none"]

\* load_configuration() in the environment env: SYMBOLS_VALUE and
\* TIMEFRAMES_VALUE are strings (unset is the empty string), ws_codes and
\* rest_codes the suffixes of the WEBSOCKET_TIMEFRAME_CODES_ and
\* REST_TIMEFRAME_CODES_ variables with their values, WS_MAX_RETRIES a
\* string of digits.  (The TELEGRAM, TWITTER, LINKEDIN and ACCOUNT entries
\* hold credentials only.)
load_configuration(env) ==
    LET split(s) ==
            LET starts == {0} \cup {i \in 1..Len(s) : s[i] = ","}
                next(p) == IF \E q \in starts : q > p
                           THEN CHOOSE q \in starts :
                                    /\ q > p
                                    /\ \A x \in starts : x > p => q <= x
                           ELSE Len(s) + 1
                nth(k) == CHOOSE p \in starts :
                              Cardinality({q \in starts : q < p}) = k - 1
            IN  [k \in 1..Cardinality(starts) |->
                    SubSeq(s, nth(k) + 1, next(nth(k)) - 1)]
        strip(s) ==
            LET inked == {i \in 1..Len(s) : s[i] # " "}
            IN  IF inked = {} THEN <<>>
                ELSE SubSeq(s, CHOOSE i \in inked : \A j \in inked : i <= j,
                            CHOOSE i \in inked : \A j \in inked : j <= i)
        items(s) == LET kept == SelectSeq(split(s),
                                          LAMBDA x : strip(x) # <<>>)
                    IN  List([i \in 1..Len(kept) |->
                                 Str(lower(strip(kept[i])))])
        codes(vars_) == Dict([k \in {lower(x) : x \in DOMAIN vars_} |->
                                 vars_[CHOOSE x \in DOMAIN vars_ :
                                           lower(x) = k]])
        digit == ("0" :> 0) @@ ("1" :> 1) @@ ("2" :> 2) @@ ("3" :> 3)
                     @@ ("4" :> 4) @@ ("5" :> 5) @@ ("6" :> 6) @@ ("7" :> 7)
                     @@ ("8" :> 8) @@ ("9" :> 9)
        int(s) == IF Len(s) = 1 THEN digit[s[1]]
                  ELSE 10 * digit[s[1]] + digit[s[2]]
    IN  Dict(("SYMBOLS" :> items(env.SYMBOLS_VALUE))
             @@ ("TIMEFRAMES" :> items(env.TIMEFRAMES_VALUE))
             @@ ("WEBSOCKET_TIMEFRAME_CODES" :> codes(env.ws_codes))
             @@ ("REST_TIMEFRAME_CODES" :> codes(env.rest_codes))
             @@ ("LBANK_API" :> Dict("websocket_url" :> Str(<<>>)))
             @@ ("WS_MAX_RETRIES" :> Num(int(env.WS_MAX_RETRIES)))
             @@ ("rest_code_map" :> codes(env.rest_codes)))

\* Either run_bot() is about to start, or validate_config is about to be
\* called on a dict whose required keys are each absent, empty, filled,
\* or filled with a value of another type.
InitConfig ==
    /\ InitManager(0)
    /\ InitStores
    /\ InitNoSeries
    /\ tf = <<>>
    /\ canonical_tf = <<>>
    /\ plan = <<>>
    /\ selected = <<>>
    /\ ind_df = <<>>
    /\ ind_out = <<>>
    /\ passes = <<>>
    /\ boot = <<>>
    /\ LET code_map == s_1h :> Str(s_hour \o <<"1">>)
           choices ==
               ("WEBSOCKET_URL" :> <<PyNone, Str(<<>>), Str(<<"w", "s", "s">>),
                                     Num(5)>>)
               @@ ("SYMBOLS" :> <<PyNone, List(<<>>), List(<<Str(s_btc)>>),
                                  Str(s_btc)>>)
               @@ ("TIMEFRAMES" :> <<PyNone, List(<<>>), List(<<Str(s_1h)>>),
                                     Str(s_1h)>>)
               @@ ("TIMEFRAME_MAPPING" :> <<PyNone, Dict(<<>>),
                                            Dict(code_map),
                                            List(<<Str(s_1h)>>)>>)
               @@ ("REST_TIMEFRAME_CODES" :> <<PyNone, Dict(<<>>),
                                               Dict(code_map),
                                               List(<<Str(s_1h)>>)>>)
       IN  \/ config = <<>>
           \/ \E pick \in [DOMAIN choices -> 0..4] :
                  config = <<Dict([k \in {x \in DOMAIN choices : pick[x] # 0}
                                     |-> choices[k][pick[k]]])>>

\* validate_config(config) is called.
validate_call ==
    /\ config # <<>>
    /\ boot = <<>>
    /\ boot' = <<[op |-> "validate_config",
                  raised |-> validate_config(config[1]).raised]>>
    /\ UNCHANGED <<max_retries, retries, is_running, pc, ws, wsOpen, hbs,
                   hb_task, listener, consumer, queue, nframes, handled, stale, sd,
                   sdTargets, sdCalls, attempts, waits, parkedAt,
                   dispatchVars, configVars, subscribeVars, tf, canonical_tf,
                   plan, selected, ind_df, ind_out, config, passes>>

\* run_bot() up to its loop: the configuration is loaded from the
\* environment and the components are made from it; WebSocketClient's
\* __init__ takes its settings from the dict with get(), so it takes any.
run_bot_start ==
    /\ config = <<>>
    /\ boot = <<>>
    /\ \E sym \in {<<>>, s_btc, upper(s_btc) \o <<",", " ", "e", "t", "h">>,
                    <<" ", ",">>},
          tfs \in {<<>>, s_1h, s_1h \o <<",">> \o upper(s_5m)},
          ws_codes \in {<<>>, upper(s_1h) :> Str(s_hour \o <<"1">>)},
          rest_codes \in {<<>>, upper(s_1h) :> Str(s_hour \o <<"1">>)},
          retries_value \in {<<"5">>, <<"2">>, <<"1", "0">>} :
          LET conf == load_configuration(
                          [SYMBOLS_VALUE |-> sym, TIMEFRAMES_VALUE |-> tfs,
                           ws_codes |-> ws_codes, rest_codes |-> rest_codes,
                           WS_MAX_RETRIES |-> retries_value])
              first(a, b, c) == IF Truthy(get(conf, a, PyNone))
                                THEN get(conf, a, PyNone)
                                ELSE IF Truthy(get(conf, b, PyNone))
                                THEN get(conf, b, PyNone)
                                ELSE c
              names(l) == [i \in 1..Len(l.list) |-> l.list[i].str]
          IN  /\ config' = <<conf>>
              /\ timeframe_mapping' =
                     first("TIMEFRAME_MAPPING", "WEBSOCKET_TIMEFRAME_CODES",
                           Dict(<<>>)).dict
              /\ rest_code_map' =
                     first("rest_code_map", "REST_TIMEFRAME_CODES",
                           Dict(<<>>)).dict
              /\ symbols' = names(first("symbols", "SYMBOLS", List(<<>>)))
              /\ timeframes' =
                     names(first("timeframes", "TIMEFRAMES", List(<<>>)))
              /\ max_retries' = get(conf, "WS_MAX_RETRIES", Num(5)).num
    /\ boot' = <<[op |-> "load_configuration", raised |-> FALSE],
                 [op |-> "initialize_components", raised |-> FALSE]>>
    /\ UNCHANGED <<retries, is_running, pc, ws, wsOpen, hbs, hb_task,
                   listener, consumer, queue, nframes, handled, stale, sd,
                   sdTargets, sdCalls, attempts, waits, parkedAt,
                   dispatchVars, subscribeVars, tf, canonical_tf, plan,
                   selected, ind_df, ind_out, passes>>

\* run_bot() calls ws_client.connect() (what connect() does then is
\* followed from InitSession on).
run_bot_connect ==
    /\ Len(boot) = 2
    /\ boot' = Append(boot, [op |-> "connect", raised |-> FALSE])
    /\ UNCHANGED <<max_retries, retries, is_running, pc, ws, wsOpen, hbs,
                   hb_task, listener, consumer, queue, nframes, handled, stale, sd,
                   sdTargets, sdCalls, attempts, waits, parkedAt,
                   dispatchVars, configVars, subscribeVars, tf, canonical_tf,
                   plan, selected, ind_df, ind_out, config, passes>>

SpecConfig ==
    InitConfig /\ [][validate_call \/ run_bot_start \/ run_bot_connect]_vars

\* --------------------------------------- ticks through process_tick_data
\* The store handed to process_tick_data: empty, keyed as the client keys
\* it, or keyed by symbol with a 1min frame of one, two or SignalCap bars
\* (a datetime is kept as its count of milliseconds).
InitSignal ==
    /\ InitManager(0)
    /\ InitNoSeries
    /\ InitNoCall
    /\ frames = <<>>
    /\ order_books = <<>>
    /\ sent = <<>>
    /\ forwarded = <<>>
    /\ absorbed = <<>>
    /\ series = 0
    /\ prefills = <<>>
    /\ LET row(t) == Dict(("timestamp" :> Num(t)) @@ ("close_price" :> Num(1))
                          @@ ("open_price" :> Num(1)))
           by_symbol(df) == <<Str(s_btc)>> :> Dict((<<"1">> \o s_min) :> df)
       IN  df_store \in {<<>>, <<Str(s_btc), s_1h>> :> <<row(1000)>>,
                          by_symbol(<<>>), by_symbol(<<row(1000)>>),
                          by_symbol(<<row(1000), row(2000)>>),
                          by_symbol([i \in 1..SignalCap |-> row(10 * i)])}

\* A ticker frame of btc goes through process_tick_data with the store as
\* it is.
signal_pass ==
    /\ Len(passes) < MaxPasses
    /\ \E latest \in {PyNone, Num(1), Num(2)}, ts \in {Num(1000), Num(3000)} :
          LET data == Dict(("subscribe" :> Str(s_ticker \o <<".">> \o s_btc))
                           @@ ("tick" :> Dict("latest" :> latest))
                           @@ ("ts" :> ts))
              done == process_tick_data(data, s_btc, df_store, SignalGlobals)
          IN  /\ df_store' = done.df
              /\ passes' = Append(passes, [data |-> data, symbol |-> s_btc,
                                           before |-> df_store,
                                           after |-> done.df,
                                           exc |-> done.exc, on |-> done.on])
    /\ UNCHANGED <<max_retries, retries, is_running, pc, ws, wsOpen, hbs,
                   hb_task, listener, consumer, queue, nframes, handled, stale, sd,
                   sdTargets, sdCalls, attempts, waits, parkedAt, frames,
                   order_books, sent, forwarded, absorbed, configVars,
                   subscribeVars, tf, canonical_tf, plan, selected, ind_df,
                   ind_out, config, boot>>

SpecSignal == InitSignal /\ [][signal_pass]_vars

\* ================================================================= claims
InConnect == pc \in {"connecting", "subscribing", "live"}
Returned == pc \in {"closed", "exhausted"}

\* C1: run() calls connect() only while the retry counter is below
\* max_retries; a connect() that ends with an exception adds exactly 1 to
\* the counter and is followed by exactly one backoff sleep (and the
\* counter changes in no other way); when every attempt has failed run()
\* has returned after exactly max_retries attempts with is_running false.
C1_RetryLoop ==
    /\ [](/\ InConnect => retries < max_retries
          /\ Len(waits) = retries
          /\ attempts <= max_retries
          /\ pc = "exhausted" =>
                /\ attempts = max_retries
                /\ retries = max_retries
                /\ ~is_running)
    /\ [][/\ (InConnect /\ ~InConnect') =>
                \/ /\ pc = "live"
                   /\ pc' = "closed"
                   /\ retries' = retries
                \/ /\ pc' = "backoff"
                   /\ retries' = retries + 1
                   /\ Len(waits') = Len(waits) + 1
          /\ retries' # retries => (InConnect /\ pc' = "backoff")
          /\ attempts' # attempts =>
                /\ attempts' = attempts + 1
                /\ pc' = "connecting"
                /\ retries < max_retries]_vars

C1_Witness ==
    /\ pc = "exhausted"
    /\ max_retries = 2
    /\ attempts = 2
    /\ Len(hbs) = 1

\* C2: the n-th backoff sleep of run() (n from 1) is min(5n, 30): the
\* first five are 5,10,15,20,25, the seventh is 30, and every one lies
\* between 5 and 30.
C2_BackoffWaits ==
    /\ \A n \in 1..Len(waits) :
          /\ waits[n] = (IF 5 * n <= 30 THEN 5 * n ELSE 30)
          /\ waits[n] >= 5
          /\ waits[n] <= 30
    /\ Len(waits) >= 5 => SubSeq(waits, 1, 5) = <<5, 10, 15, 20, 25>>
    /\ Len(waits) >= 7 => waits[7] = 30

C2_Witness == Len(waits) >= 7 /\ pc = "exhausted"

\* C3: when the heartbeat of a Live session gets no pong within the
\* timeout, the session leaves Live: is_running becomes false.
C3_HeartbeatTimeoutEndsSession ==
    [][(/\ pc = "live"
        /\ is_running
        /\ wsOpen
        /\ hb_task # 0
        /\ hbs[hb_task].st = "pinging"
        /\ hbs[hb_task].on = ws
        /\ hbs'[hb_task].st = "failed") => ~is_running']_vars

\* C4: without a call of graceful_shutdown(), run() returns only when the
\* retry budget is spent: a transport that closes during the Live session
\* is followed by another connect() attempt while retries remain.
C4_SocketCloseReconnects ==
    (Returned /\ sdCalls = 0) => retries >= max_retries

\* C5: after a session that reached Live and closed gracefully (connect()
\* returned normally) the retry counter is 0.
C5_ResetOnGracefulClose ==
    pc = "closed" => retries = 0

\* C6: max_retries_reached() is retries >= max_retries; once true it stays
\* true and run() makes no further connect() attempt; when run() has
\* returned it is true exactly if run() left its loop because the budget
\* was spent, not because a session closed gracefully.
C6_ExhaustionTerminal ==
    /\ [](/\ max_retries_reached <=> retries >= max_retries
          /\ retries >= max_retries => ~InConnect
          /\ Returned => (retries >= max_retries <=> pc = "exhausted"))
    /\ [][retries >= max_retries =>
             /\ retries' >= max_retries'
             /\ attempts' = attempts
             /\ ~InConnect']_vars

C6_Witness ==
    /\ pc = "exhausted"
    /\ retries = 2
    /\ sdCalls = 2
    /\ Len(hbs) = 2

\* C7: a call of graceful_shutdown() on a client that an earlier call has
\* already shut down (not running, transport closed, no task left to
\* await) leaves is_running, the task handles, the transport and the
\* contents of the intake queue as they were.
C7_ShutdownIdempotent ==
    [][(/\ sd = "idle"
        /\ sdCalls >= 1
        /\ ~is_running
        /\ ~wsOpen
        /\ sdCalls' = sdCalls + 1
        /\ sd' = "idle") =>
            /\ is_running' = is_running
            /\ taskVars' = taskVars
            /\ ws' = ws
            /\ wsOpen' = wsOpen
            /\ queue' = queue]_vars

\* C8: at the step at which graceful_shutdown() returns, no heartbeat,
\* listener or consumer task of the client is still alive.  Stated for the
\* calls made once connect() has created its listener and consumer (it
\* creates no task after that), which includes the case the claim names:
\* an earlier attempt that failed after starting its heartbeat.
C8_NoTaskOutlivesShutdown ==
    [][(/\ sd' = "idle"
        /\ sdCalls' >= 1
        /\ (sd # "idle" \/ sdCalls' # sdCalls)
        /\ sdTargets'.l
        /\ sdTargets'.c) =>
            /\ \A i \in 1..Len(hbs') : ~HbAlive(hbs'[i])
            /\ listener' \notin {"new", "reading", "cancelling"}
            /\ consumer' \notin {"ready", "parked"}]_vars

\* C9: after graceful_shutdown() was called in a Live session whose
\* consumer was parked on the empty queue: the sentinel is the item the
\* parked consumer is handed, the consumer has ended when the call has
\* returned, the keep-alive loop of connect() is left (is_running is
\* false) and run() returns from there, with no further connect() attempt
\* and the retry counter as it was.
C9_ShutdownWhileParked ==
    parkedAt # -1 =>
        /\ pc \in {"live", "closed"}
        /\ ~is_running
        /\ retries = parkedAt
        /\ attempts = parkedAt + 1
        /\ consumer \in {"parked", "done", "cancelled"}
        /\ consumer = "parked" => (queue # <<>> /\ Head(queue) = None)
        /\ sd = "idle" => consumer \in {"done", "cancelled"}

C9_Witness ==
    /\ parkedAt = 1
    /\ pc = "closed"
    /\ consumer = "done"
    /\ sd = "idle"

\* C10: once the listener and the consumer of a session that was never
\* shut down have both ended, every frame the listener enqueued has been
\* passed to _handle_ws_message, in the order of enqueueing.  Stated for
\* the sessions whose consumer got to handle at least one frame.
C10_EveryFrameHandled ==
    (/\ listener = "done"
     /\ consumer = "done"
     /\ sdCalls = 0
     /\ handled # <<>>) =>
        handled = [n \in 1..nframes |-> n]

\* C11: the message callback is called for a frame exactly if the frame
\* decodes to a JSON object that carries no ping field, is no server error
\* and has a str `subscribe` starting with "ticker."; such a frame is
\* forwarded once, with the decoded frame as it came; no other frame (kbar,
\* depth, any other kind) is forwarded.
C11_TickerOnlyForwarded ==
    \A n \in 1..nframes :
        LET raw == frames[n]
            msg == json_loads(raw)
            taken == \E k \in 1..Len(handled) : handled[k] = n
            ticker == /\ IsJson(raw)
                      /\ IsDict(msg)
                      /\ "ping" \notin DOMAIN msg.dict
                      /\ get(msg, "status", PyNone) # Str(s_error)
                      /\ IsStr(get(msg, "subscribe", PyNone))
                      /\ startswith(get(msg, "subscribe", PyNone).str,
                                    s_ticker \o <<".">>)
            calls == {i \in 1..Len(forwarded) : forwarded[i].frame = n}
        IN  IF taken /\ ticker
            THEN /\ Cardinality(calls) = 1
                 /\ \A i \in calls : forwarded[i].msg = msg
            ELSE calls = {}

\* C12: on an open transport, handling a frame that carries a ping field
\* sends exactly one text, the JSON of {action: "pong", pong: v} with v
\* the value of the ping field, and does nothing else: no window, no
\* snapshot changes, no callback is called, nothing is raised.
C12_PingAnswered ==
    [][(/\ handled' # handled
        /\ wsOpen
        /\ IsJson(frames[handled'[Len(handled')]])
        /\ IsDict(json_loads(frames[handled'[Len(handled')]]))
        /\ "ping" \in DOMAIN json_loads(frames[handled'[Len(handled')]]).dict)
       => LET msg == json_loads(frames[handled'[Len(handled')]])
          IN  /\ sent' = Append(sent,
                            json_dumps(Dict(("action" :> Str(s_pong))
                                            @@ ("pong" :> msg.dict["ping"]))))
              /\ df_store' = df_store
              /\ order_books' = order_books
              /\ forwarded' = forwarded
              /\ absorbed' = absorbed]_vars

\* C13: handling a malformed frame, a frame that carries a ping field or a
\* server-error frame changes no bar window and no order-book snapshot and
\* calls no callback, whatever else the frame carries; malformed comes
\* first (nothing is sent), then ping (the pong is sent even when the frame
\* is a server error too), then the error (nothing is sent).
C13_DroppedFramesLeaveStores ==
    [][handled' # handled =>
        LET raw == frames[handled'[Len(handled')]]
            msg == json_loads(raw)
            malformed == ~IsJson(raw) \/ ~IsDict(msg)
            ping == ~malformed /\ "ping" \in DOMAIN msg.dict
            error == /\ ~malformed
                     /\ get(msg, "status", PyNone) = Str(s_error)
        IN  /\ (malformed \/ ping \/ error) =>
                /\ df_store' = df_store
                /\ order_books' = order_books
                /\ forwarded' = forwarded
            /\ malformed => sent' = sent
            /\ (ping /\ wsOpen) => Len(sent') = Len(sent) + 1
            /\ (error /\ ~ping) => sent' = sent]_vars

\* C14: a failure while a frame is handled never ends the consumer: when
\* the callback raises, or the indicator computation of a kbar frame
\* raises, the exception is logged and the consumer is ready for the next
\* queued frame, with the rest of the queue as it was; the consumer task
\* ends only when the session is no longer running.
C14_HandlerFailureAbsorbed ==
    /\ [](consumer \in {"ready", "parked"} \/ ~is_running)
    /\ [][handled' # handled =>
            /\ consumer' = "ready"
            /\ queue' = Tail(queue)
            /\ Len(absorbed') <= Len(absorbed) + 1]_vars

C14_Witness ==
    /\ Len(handled) = 2
    /\ Len(absorbed) = 2
    /\ absorbed[1].by = "handler"
    /\ IsDict(json_loads(frames[1]))
    /\ get(json_loads(frames[1]), "subscribe", PyNone) = Str(s_kbar)
    /\ absorbed[2].by = "callback"
    /\ consumer = "ready"
    /\ is_running

\* C15: whatever prefills and kbar frames came before, no bar window holds
\* more than 200 bars; a kbar frame appended to a window of 200 bars drops
\* exactly the oldest bar, keeps the others in their order and puts the
\* new bar last.
C15_WindowBounded ==
    /\ [](\A key \in DOMAIN df_store : Len(df_store[key]) <= 200)
    /\ [][\A key \in DOMAIN df_store :
            (Len(df_store[key]) = 200 /\ df_store'[key] # df_store[key]) =>
                /\ handled' # handled
                /\ df_store'[key] =
                       Append(Tail(df_store[key]),
                              json_loads(frames[handled'[Len(handled')]])
                                  .dict["data"])]_vars

C15_Witness ==
    /\ Len(handled) = 202
    /\ prefills # <<>>
    /\ \E key \in DOMAIN df_store :
        /\ Len(df_store[key]) = 200
        /\ df_store[key][1].dict["close_price"] = Num(3)
        /\ df_store[key][200].dict["close_price"] = Num(202)

C18_PrefillFailureAbsorbed ==
    [][Len(prefills') > Len(prefills) =>
        /\ pc' = "subscribing"
        /\ wsOpen'
        /\ retries' = retries
        /\ series' = series + 1
        /\ Len(sent') = Len(sent) + 2]_vars

\* C17: normalize_tf gives the canonical token of the alias group for
\* every member of the group, written in lower or upper case ("1h", "h1"
\* and "hour1" all give "1h"), and applying it again to its result changes
\* nothing, for aliases, for strings in no group and for upper case.
C17_NormalizeCanonIdempotent ==
    /\ Len(canonical_tf) >= 1 =>
        /\ \A g \in 1..Len(aliases) :
               InAlts(lower(tf), aliases[g].alts)
                   => canonical_tf[1] = aliases[g].canon
        /\ tf \in {s_1h, s_h1, s_hour \o <<"1">>} => canonical_tf[1] = s_1h
        /\ (\A g \in 1..Len(aliases) : ~InAlts(lower(tf), aliases[g].alts))
               => canonical_tf[1] = lower(tf)
    /\ Len(canonical_tf) = 2 => canonical_tf[2] = canonical_tf[1]

C17_Witness ==
    /\ tf = upper(s_hour \o <<"1">>)
    /\ canonical_tf = <<s_1h, s_1h>>

\* C19: for a plan with valid entries (each carrying its RRR) the result
\* of select_best_sl_tp is the valid entry with the greatest RRR, the
\* first such entry in the plan's order when several share it, with its
\* method name added; entries that are not valid never win whatever their
\* RRR (A 1.5 valid, B 3.0 valid, C 5.0 not valid gives B).
C19_SelectsGreatestValid ==
    LET validIdx == {i \in 1..Len(plan) :
                        /\ IsDict(plan[i])
                        /\ get(plan[i], "valid", PyNone) = Bool(TRUE)}
        rrr(i) == plan[i].dict["RRR"].num
    IN  (/\ selected # <<>>
         /\ validIdx # {}
         /\ \A i \in validIdx : "RRR" \in DOMAIN plan[i].dict)
        => LET best == CHOOSE i \in validIdx :
                           \A j \in validIdx :
                               \/ rrr(j) < rrr(i)
                               \/ rrr(j) = rrr(i) /\ i <= j
           IN  selected[1] =
                   Dict(("method" :> Str(Methods[best])) @@ plan[best].dict)

\* C20: for a plan with no valid entry (the empty plan, entries with valid
\* false or absent, values that are not dicts) the result of
\* select_best_sl_tp is the failure marker, a dict with the key `error`
\* and no method, never the empty dict.
C20_NoValidGivesMarker ==
    LET validIdx == {i \in 1..Len(plan) :
                        /\ IsDict(plan[i])
                        /\ get(plan[i], "valid", PyNone) = Bool(TRUE)}
    IN  (selected # <<>> /\ validIdx = {})
        => /\ IsDict(selected[1])
           /\ selected[1] # Dict(<<>>)
           /\ "error" \in DOMAIN selected[1].dict
           /\ "method" \notin DOMAIN selected[1].dict

C20_Witness ==
    /\ plan = <<Num(5), Dict(("valid" :> Bool(FALSE)) @@ ("RRR" :> Num(50)))>>
    /\ selected = <<Dict("error" :> Str(s_no_valid))>>

C22_SubscribeBeforeTasks ==
    /\ [](/\ Len(prefills) >= Len(sent)
          /\ pc = "subscribing" =>
                 /\ hbs[hb_task].st = "pending"
                 /\ ~ListenerAlive
                 /\ ~ConsumerAlive)
    /\ [][(pc \in {"connecting", "subscribing"}) => (handled' = handled)]_vars

\* C23: a kbar frame whose bar has the timestamp of the newest bar of its
\* window replaces that bar and leaves the length of the window as it
\* was, so no window holds two bars with the same timestamp.
C23_OneBarPerPeriod ==
    /\ [](\A key \in DOMAIN df_store :
             \A i \in 1..(Len(df_store[key]) - 1) :
                 get(df_store[key][i], "timestamp", PyNone)
                     # get(df_store[key][i + 1], "timestamp", PyNone))
    /\ [][\A key \in DOMAIN df_store :
            LET w == df_store[key]
                bar == json_loads(frames[handled'[Len(handled')]]).dict["data"]
            IN  (/\ handled' # handled
                 /\ df_store'[key] # w
                 /\ w # <<>>
                 /\ get(w[Len(w)], "timestamp", PyNone)
                        = get(bar, "timestamp", PyNone))
                => df_store'[key] = [w EXCEPT ![Len(w)] = bar]]_vars

\* C24: detect_candlestick_patterns gives every bar exactly one of the
\* labels Bullish, Bearish and Neutral: Neutral when the bar is a doji
\* (its body is at most a tenth of its range) whatever the scores are,
\* otherwise Bullish when the bullish score is strictly greater, Bearish
\* when the bearish score is strictly greater, Neutral when they are equal.
C24_LabelRules ==
    \A i \in 1..Len(ind_out) :
        LET o == ind_out[i].call.df
            abs(x) == IF x < 0 THEN 0 - x ELSE x
            is_doji(r) ==
                10 * abs(ind_df["close_price"][r].num
                             - ind_df["open_price"][r].num)
                    <= ind_df["high_price"][r].num
                           - ind_df["low_price"][r].num
        IN  (/\ ind_out[i].method = "detect_candlestick_patterns"
             /\ ~ind_out[i].call.raised)
            => /\ DOMAIN o["patterns_result"] = DOMAIN ind_df["close_price"]
               /\ \A r \in DOMAIN o["patterns_result"] :
                      LET label == o["patterns_result"][r]
                          bull == o["bullish_score"][r].num
                          bear == o["bearish_score"][r].num
                      IN  /\ label \in {"Bullish", "Bearish", "Neutral"}
                          /\ is_doji(r) => label = "Neutral"
                          /\ (~is_doji(r) /\ bull > bear)
                                 => label = "Bullish"
                          /\ (~is_doji(r) /\ bear > bull)
                                 => label = "Bearish"
                          /\ (~is_doji(r) /\ bear = bull)
                                 => label = "Neutral"

\* a doji with a hammer's shadows, labelled Neutral with bullish score 1,
\* after a bar without pattern
C24_Witness ==
    /\ ind_out # <<>>
    /\ ind_out[1].method = "detect_candlestick_patterns"
    /\ ~ind_out[1].call.raised
    /\ Len(ind_df["close_price"]) = 2
    /\ ind_df["open_price"][2] = Num(10)
    /\ ind_df["close_price"][2] = Num(11)
    /\ ind_df["high_price"][2] = Num(11)
    /\ ind_df["low_price"][2] = Num(0)
    /\ ind_out[1].call.df["bullish_score"][2] = Num(1)
    /\ ind_out[1].call.df["patterns_result"] = <<"Neutral", "Neutral">>

\* C25: calculate_fibonacci makes every retracement column null on every
\* bar when the window has no swing high or no swing low; otherwise the
\* levels come from the latest swing high and the latest swing low alone,
\* fib_0 is that low, fib_100 is that high, and every bar has the same
\* levels (levels are in thousandths).
C25_FibonacciFromLastSwings ==
    \A i \in 1..Len(ind_out) :
        LET o == ind_out[i].call.df
            highs == ind_df["swing_high"]
            lows == ind_df["swing_low"]
            at_high == {r \in DOMAIN highs : highs[r] # NaN}
            at_low == {r \in DOMAIN lows : lows[r] # NaN}
            latest(S) == CHOOSE r \in S : \A q \in S : q <= r
            H == highs[latest(at_high)].num
            L == lows[latest(at_low)].num
            ratios == ("fib_0" :> 1000) @@ ("fib_23.6" :> 236)
                          @@ ("fib_38.2" :> 382) @@ ("fib_50.0" :> 500)
                          @@ ("fib_61.8" :> 618) @@ ("fib_78.6" :> 786)
                          @@ ("fib_100" :> 0)
        IN  (/\ ind_out[i].method = "calculate_fibonacci"
             /\ ~ind_out[i].call.raised)
            => /\ DOMAIN ratios \subseteq DOMAIN o
               /\ \A k \in DOMAIN ratios : \A r \in DOMAIN highs :
                      /\ DOMAIN o[k] = DOMAIN highs
                      /\ (at_high = {} \/ at_low = {}) => o[k][r] = NaN
                      /\ (at_high # {} /\ at_low # {})
                             => /\ o[k][r] = Num(1000 * H - ratios[k] * (H - L))
                                /\ o["fib_0"][r] = Num(1000 * L)
                                /\ o["fib_100"][r] = Num(1000 * H)

\* two swing highs and two swing lows; the levels are those of the later
\* ones
C25_Witness ==
    /\ ind_out # <<>>
    /\ ind_out[1].method = "calculate_fibonacci"
    /\ ind_df = ("swing_high" :> <<Num(10), Num(20)>>)
                    @@ ("swing_low" :> <<Num(20), Num(10)>>)
    /\ ind_out[1].call.df["fib_0"] = <<Num(10000), Num(10000)>>
    /\ ind_out[1].call.df["fib_50.0"] = <<Num(15000), Num(15000)>>
    /\ ind_out[1].call.df["fib_100"] = <<Num(20000), Num(20000)>>

\* C26: each of the steps Bollinger, RSI, MACD, Keltner and Ichimoku, on
\* a window of bars that is shorter than the step's lookback (here the
\* smallest of the step's periods), returns without raising, and every
\* column it adds is null on every bar.
C26_ShortWindowAllNull ==
    \A i \in 1..Len(ind_out) :
        LET o == ind_out[i].call.df
            lookback == ("calculate_bollinger" :> 20)
                            @@ ("calculate_rsi" :> 14)
                            @@ ("calculate_macd" :> 9)
                            @@ ("calculate_keltner" :> 10)
                            @@ ("calculate_ichimoku" :> 9)
        IN  (/\ ind_out[i].method \in DOMAIN lookback
             /\ "close_price" \in DOMAIN ind_df
             /\ Len(ind_df["close_price"]) < lookback[ind_out[i].method])
            => /\ ~ind_out[i].call.raised
               /\ \A k \in DOMAIN o \ DOMAIN ind_df :
                      \A r \in DOMAIN o[k] : o[k][r] = NaN

C29_ComputesOnUpdatedWindow ==
    \A i \in 1..Len(passes) :
        LET key == <<Str(passes[i].symbol)>>
            tick_tf == <<"1">> \o s_min
            at == passes[i].data.dict
            old == passes[i].before[key].dict[tick_tf]
        IN  (/\ IsNum(at["tick"].dict["latest"])
             /\ key \in DOMAIN passes[i].before
             /\ DOMAIN passes[i].before[key] = {"dict"}
             /\ old # <<>>
             /\ old[Len(old)].dict["timestamp"].num < at["ts"].num)
            => /\ passes[i].on # <<>>
               /\ Len(passes[i].on[1]) <= 100
               /\ passes[i].on[1][Len(passes[i].on[1])].dict["timestamp"]
                      = at["ts"]
               /\ passes[i].on[1][Len(passes[i].on[1])].dict["close_price"]
                      = at["tick"].dict["latest"]
               /\ passes[i].after[key].dict[tick_tf] = passes[i].on[1]

\* C30: handling a depth frame (one that is no ping and no server error)
\* whose data names symbol s makes the snapshot of s exactly that data,
\* and leaves every other snapshot and every bar window as it was; a
\* depth frame whose data names no symbol changes neither store; a kbar
\* frame changes no snapshot.
C30_DepthReplacesSnapshot ==
    [][handled' # handled =>
        LET raw == frames[handled'[Len(handled')]]
            msg == json_loads(raw)
            kind == get(msg, "subscribe", Str(<<>>))
            data == get(msg, "data", Dict(<<>>))
            symbol == get(data, "symbol", PyNone)
            same_books == /\ DOMAIN order_books' = DOMAIN order_books
                          /\ \A s \in DOMAIN order_books :
                                 order_books'[s] = order_books[s]
            same_bars == /\ DOMAIN df_store' = DOMAIN df_store
                         /\ \A key \in DOMAIN df_store :
                                df_store'[key] = df_store[key]
        IN  (/\ IsJson(raw)
             /\ IsDict(msg)
             /\ ~Truthy(get(msg, "ping", PyNone))
             /\ get(msg, "status", PyNone) # Str(s_error)
             /\ IsDict(data))
            => /\ (kind = Str(s_depth) /\ IsStr(symbol) /\ symbol.str # <<>>)
                      => /\ DOMAIN order_books'
                                = DOMAIN order_books \cup {symbol}
                         /\ order_books'[symbol] = data
                         /\ \A s \in DOMAIN order_books \ {symbol} :
                                order_books'[s] = order_books[s]
                         /\ same_bars
               /\ (/\ kind = Str(s_depth)
                   /\ \/ "symbol" \notin DOMAIN data.dict
                      \/ symbol = Str(<<>>))
                      => same_books /\ same_bars
               /\ kind = Str(s_kbar) => same_books]_vars

\* btc has the snapshot of the second of two depth frames, which has none
\* of the fields of the first
C30_Witness ==
    /\ Len(handled) = 2
    /\ absorbed = <<>>
    /\ IsJson(frames[1])
    /\ IsDict(json_loads(frames[1]))
    /\ DOMAIN json_loads(frames[1]).dict = {"subscribe", "data"}
    /\ json_loads(frames[1]).dict["data"] = BarFull
    /\ json_loads(frames[1]).dict["subscribe"] = Str(s_depth)
    /\ DOMAIN order_books = {Str(s_btc)}
    /\ order_books[Str(s_btc)]
           = Dict(("symbol" :> Str(s_btc)) @@ ("asks" :> Num(2)))

\* C31: the consumer of a session takes from the queue only what was put
\* after the tasks of the session were created: no frame and no sentinel
\* that was on the queue before (left by an earlier attempt or by a
\* graceful_shutdown() called earlier) is taken by it.
C31_NoStaleItemTaken == stale.taken = <<>>

\* C32: at every moment at most one heartbeat task, at most one listener
\* task and at most one consumer task are alive, and a heartbeat task
\* pings only the transport that was opened by the connect() that created
\* it.
C32_OneTaskOfEachKind ==
    /\ Cardinality({i \in 1..Len(hbs) : HbAlive(hbs[i])}) <= 1
    /\ Cardinality({k \in {"listener"} : ListenerAlive}) <= 1
    /\ Cardinality({k \in {"consumer"} : ConsumerAlive}) <= 1
    /\ \A i \in 1..Len(hbs) : hbs[i].st = "pinging" => hbs[i].on = i

\* C33: for a plan with at least one entry whose valid is true, whatever
\* its RRR, select_best_sl_tp returns a candidate that carries a method
\* name and not the failure marker; and the call leaves the plan as it
\* was.
C33_MarkerOnlyWithoutValid ==
    /\ [](LET validIdx == {i \in 1..Len(plan) :
                              /\ IsDict(plan[i])
                              /\ get(plan[i], "valid", PyNone) = Bool(TRUE)}
          IN  (selected # <<>> /\ validIdx # {})
              => /\ IsDict(selected[1])
                 /\ "error" \notin DOMAIN selected[1].dict
                 /\ "method" \in DOMAIN selected[1].dict)
    /\ [][plan' = plan]_vars

====
